---- MODULE Spec2Model ----
(***************************************************************************)
(* Verification model of the pointer-actuation pipeline:                   *)
(*   - SoftwareMouseController (src/mouse_control/software.py)             *)
(*   - ArduinoController       (src/mouse_control/arduino.py)              *)
(*   - DLLMouseController      (src/mouse_control/dll_mouse.py)            *)
(*   - DetectionThread         (src/gui/app.py)                            *)
(* One actuator variant is constructed per behaviour (variable `variant`). *)
(* Threads are modelled by program counters; one action is one atomic      *)
(* step of one thread.  Variables ending in _log / _count are history      *)
(* variables recording what a test double would observe.                   *)
(***************************************************************************)
EXTENDS Integers, Sequences, FiniteSets, TLC

\* ------------------------------------------------------------------ bounds
MaxCmds == 2          \* producer calls per behaviour
StepGrid == 2         \* clock samples distinguished inside one _smooth_move
MaxCtlOps == 1        \* disconnect / reconnect calls per behaviour
MaxIters == 3         \* cap of the detection loop's call counters
MaxCalls == 3         \* operations called on one MovementSmoother
MaxPoints == 3        \* largest num_points given to generate_smooth_path
MaxWaypoints == 4     \* waypoints of a movement sequence that are generated

\* ------------------------------------------------------- program constants
DefaultScreenWidth == 1920
DefaultScreenHeight == 1080
DefaultVirtualX == 960
DefaultVirtualY == 540

\* ------------------------------------------------------------ input sets
Targets == {<<-7, 100>>, <<2500, 1500>>}
DurationDen == 120         \* a duration d stands for d / DurationDen seconds
Durations == {0, 7}
Deltas == {<<-2000, 50>>}
ScreenSizes == {<<800, 600>>}      \* arguments of set_screen_size

VARIABLES
    variant,            \* which actuator was constructed
    \* SoftwareMouseController
    virtual_x, virtual_y, screen_width, screen_height, smooth_movement,
    total_movements, total_clicks,
    movement_queue, sw_queue_lock, sw_running,
    sw_pc,              \* position of _simulation_loop
    sw_movement,        \* local `movement` of _simulation_loop, NoCmd once it is dead
    sw_smooth,          \* locals of _smooth_move: start_x, start_y, last clock sample
    sw_call,            \* producer thread: command built, waiting for queue_lock
    next_id,            \* identity given to the next command built
    sw_enqueued_log, sw_popped_log, sw_executed_log, sw_step_log,
    sw_failed_log,      \* commands whose _execute_movement raised, with the number
                        \* of commands appended by then
    sw_stop_mark,       \* lengths of the enqueued and popped logs when stop()
                        \* was called
    \* ArduinoController
    is_connected, serial_connection, command_queue, hw_queue_lock, hw_running,
    hw_pc,              \* position of _worker_loop
    hw_command,         \* local `command` of _worker_loop, NoCmd once it is dead
    hw_call,            \* producer thread: command built, waiting for queue_lock
    hw_constructed,     \* __init__ has returned
    ctl_pc,             \* thread running connect / disconnect / reconnect
    ctl_then,           \* what follows disconnect: "connect" inside reconnect
    attempt,            \* loop variable of connect
    ctl_ops,            \* disconnect / reconnect calls made
    serial_log,         \* lines written to the serial channel: "ping" or a command's id
    hw_enqueued_log, hw_popped_log, hw_executed_log, hw_cleared_log,
    hw_calls,           \* command operations invoked
    attempt_count,      \* attempts begun by the current connect call
    attempt_log,        \* outcomes of the attempts finished by the current connect call
    ping_written,       \* the current attempt wrote its ping line
    pong_read,          \* the current attempt read a line containing pong
    connect_result,     \* return value of the last connect call
    started_by_connect, \* the current connect call started a worker
    \* DLLMouseController
    nv_pc,              \* position of the thread calling move_to
    nv_cursor,          \* cursor position as GetCursorPos reports it
    nv_move,            \* locals of _smooth_move_to
    nv_target_log,      \* clamped targets of the move_to calls
    nv_dispatch_log,    \* arguments of the _instant_move_to calls
    \* DetectionThread and the GUI thread
    dt_running,         \* DetectionThread.running
    dt_pc,              \* position of DetectionThread.run
    dt_frame,           \* result of the last capture() call
    dt_detections,      \* result of the last detect() call
    dt_selected,        \* index of the detection chosen in this iteration
    dt_trace,           \* smooth / move_to / emit calls of the current iteration
    dt_error_pending,   \* an error_occurred signal waits for its slot
    gui_errors,         \* errors shown by on_detection_error, capped at MaxIters
    is_running,         \* ObjectDetectionGUI.is_running
    gui_pc,             \* position of the GUI thread
    stop_called,        \* stop() has been called on the thread
    dt_counts,          \* calls made by the loop, each count capped at MaxIters
    \* MovementSmoother
    sm_pc,              \* "ready" once a smoother is constructed
    window_size, smoothing_factor, position_history, velocity_history,
    last_position, last_time, current_velocity,
    sm_maxlen,          \* maxlen of the two history deques
    sm_now,             \* time.time(), in ticks
    sm_call,            \* arguments and result of the last smooth() call
    sm_last_op,         \* the last operation called
    sm_predicted,       \* result of the last predict_position() call
    sm_since,           \* smooth() calls since construction or the last reset()
    sm_ops,             \* operations called
    \* TrajectoryGenerator
    pt_pc,              \* position of generate_smooth_path
    pt_start, pt_end, curve_type, num_points,
    path,               \* local `path` of the _*_path function
    \* NaturalMouseMovement
    ms_pc,              \* position of generate_movement_sequence
    movement_sequence,  \* local `movement_sequence`
    ms_now,             \* time.time(), in milliseconds
    ms_start,           \* time.time() when the call was made
    \* EasingFunctions
    ea_pc,              \* position of one call of an easing function
    ea_name, ea_t,      \* the function called and its argument, in 1/EaseGrid
    ea_result           \* the value returned

sw_vars == <<virtual_x, virtual_y, screen_width, screen_height, smooth_movement,
             total_movements, total_clicks, movement_queue, sw_queue_lock,
             sw_running, sw_pc, sw_movement, sw_smooth, sw_call,
             sw_enqueued_log, sw_popped_log, sw_executed_log, sw_step_log,
             sw_failed_log, sw_stop_mark>>

hw_vars == <<is_connected, serial_connection, command_queue, hw_queue_lock,
             hw_running, hw_pc, hw_command, hw_call, hw_constructed,
             ctl_pc, ctl_then, attempt, ctl_ops,
             serial_log, hw_enqueued_log, hw_popped_log, hw_executed_log,
             hw_cleared_log, hw_calls, attempt_count, attempt_log, ping_written,
             pong_read, connect_result, started_by_connect>>

nv_vars == <<nv_pc, nv_cursor, nv_move, nv_target_log, nv_dispatch_log>>

dt_vars == <<dt_running, dt_pc, dt_frame, dt_detections, dt_selected, dt_trace,
             dt_error_pending, gui_errors, is_running, gui_pc, stop_called,
             dt_counts>>

sm_vars == <<sm_pc, window_size, smoothing_factor, position_history,
             velocity_history, last_position, last_time, current_velocity,
             sm_maxlen, sm_now, sm_call, sm_last_op, sm_predicted, sm_since, sm_ops>>

pt_vars == <<pt_pc, pt_start, pt_end, curve_type, num_points, path>>

ms_vars == <<ms_pc, movement_sequence, ms_now, ms_start>>

ea_vars == <<ea_pc, ea_name, ea_t, ea_result>>

vars == <<variant, next_id, sw_vars, hw_vars, nv_vars, dt_vars, sm_vars, pt_vars,
          ms_vars, ea_vars>>

non_sw == <<hw_vars, nv_vars, dt_vars, sm_vars, pt_vars, ms_vars, ea_vars>>

non_hw == <<sw_vars, nv_vars, dt_vars, sm_vars, pt_vars, ms_vars, ea_vars>>

non_nv == <<sw_vars, hw_vars, dt_vars, sm_vars, pt_vars, ms_vars, ea_vars>>

non_dt == <<variant, next_id, sw_vars, hw_vars, nv_vars, sm_vars, pt_vars,
            ms_vars, ea_vars>>

non_sm == <<variant, next_id, sw_vars, hw_vars, nv_vars, dt_vars, pt_vars,
            ms_vars, ea_vars>>

non_pt == <<variant, next_id, sw_vars, hw_vars, nv_vars, dt_vars, sm_vars,
            ms_vars, ea_vars>>

non_ms == <<variant, next_id, sw_vars, hw_vars, nv_vars, dt_vars, sm_vars,
            pt_vars, ea_vars>>

non_ea == <<variant, next_id, sw_vars, hw_vars, nv_vars, dt_vars, sm_vars,
            pt_vars, ms_vars>>

\* ---------------------------------------------------------------- helpers
Max(a, b) == IF a >= b THEN a ELSE b
Min(a, b) == IF a <= b THEN a ELSE b

NoCmd == [id |-> 0, action |-> "none", x |-> 0, y |-> 0, dx |-> 0, dy |-> 0, duration |-> 0]

Cmd(i, a, x, y, dx, dy, d) ==
    [id |-> i, action |-> a, x |-> x, y |-> y, dx |-> dx, dy |-> dy, duration |-> d]

\* max(0, min(v, size - 1))
ClampCoord(v, size) == Max(0, Min(v, size - 1))

\* list.pop() in place of list.pop(0): the newest element is taken
PopLast(q) == [item |-> q[Len(q)], rest |-> SubSeq(q, 1, Len(q) - 1)]

\* q[0] in place of q.pop(0): the element is read but stays queued
PopKeep(q) == [item |-> Head(q), rest |-> q]

\* list.pop(0): the element handed to the worker and the list left behind
Pop(q) == [item |-> Head(q), rest |-> Tail(q)]

\* eased_progress = 1 - (1 - progress) ** 2 at progress = k / StepGrid,
\* as the fraction EasedNum(k) / EasedDen
EasedNum(k) == StepGrid * StepGrid - (StepGrid - k) * (StepGrid - k)
EasedDen == StepGrid * StepGrid

\* int(start + (target - start) * eased_progress) for non-negative results
SmoothCoord(start, target, k) == start + (((target - start) * EasedNum(k)) \div EasedDen)

\* ------------------------------------------------ SoftwareMouseController
\* nothing recorded: stop() has not been called
NoStop == [called |-> FALSE, enqueued |-> 0, popped |-> 0]

SwInit ==
    /\ virtual_x = DefaultVirtualX
    /\ virtual_y = DefaultVirtualY
    /\ screen_width = DefaultScreenWidth
    /\ screen_height = DefaultScreenHeight
    /\ smooth_movement = TRUE
    /\ total_movements = 0
    /\ total_clicks = 0
    /\ movement_queue = <<>>
    /\ sw_queue_lock = "free"
    /\ sw_movement = NoCmd
    /\ sw_smooth = [start_x |-> 0, start_y |-> 0, k |-> -1]
    /\ sw_call = NoCmd
    /\ sw_enqueued_log = <<>>
    /\ sw_popped_log = <<>>
    /\ sw_executed_log = <<>>
    /\ sw_step_log = <<>>
    /\ sw_failed_log = <<>>
    /\ sw_stop_mark = NoStop

\* __init__ ends in _start_simulation_thread: running = True, thread started
SwConstructed ==
    /\ SwInit
    /\ sw_running = TRUE
    /\ sw_pc = "loop"

SwAbsent ==
    /\ SwInit
    /\ sw_running = FALSE
    /\ sw_pc = "none"

\* producer side: the call builds the command, then appends under queue_lock
SwBuild(cmd) ==
    /\ variant = "software"
    /\ sw_call = NoCmd
    /\ next_id <= MaxCmds
    /\ sw_call' = cmd
    /\ next_id' = next_id + 1
    /\ UNCHANGED non_sw
    /\ UNCHANGED <<variant, virtual_x, virtual_y, screen_width, screen_height,
                   smooth_movement, total_movements, total_clicks, movement_queue,
                   sw_queue_lock, sw_running, sw_pc, sw_movement, sw_smooth,
                   sw_enqueued_log, sw_popped_log, sw_executed_log, sw_failed_log, sw_step_log, sw_stop_mark>>

SwMoveTo(x, y, duration) ==
    SwBuild(Cmd(next_id, "move_to", ClampCoord(x, screen_width),
                ClampCoord(y, screen_height), 0, 0, duration))

SwMoveRelative(dx, dy) == SwBuild(Cmd(next_id, "move_relative", 0, 0, dx, dy, 0))

SwClick == SwBuild(Cmd(next_id, "click", 0, 0, 0, 0, 0))

SwPress == SwBuild(Cmd(next_id, "press", 0, 0, 0, 0, 0))

SwRelease == SwBuild(Cmd(next_id, "release", 0, 0, 0, 0, 0))

SwScroll == SwBuild(Cmd(next_id, "scroll", 0, 0, 0, 0, 0))

\* with self.queue_lock: self.movement_queue.append(movement)
SwAppend ==
    /\ variant = "software"
    /\ sw_call # NoCmd
    /\ sw_queue_lock = "free"
    /\ movement_queue' = Append(movement_queue, sw_call)
    /\ sw_enqueued_log' = Append(sw_enqueued_log, sw_call.id)
    /\ sw_call' = NoCmd
    /\ UNCHANGED non_sw
    /\ UNCHANGED <<variant, next_id, virtual_x, virtual_y, screen_width, screen_height,
                   smooth_movement, total_movements, total_clicks,
                   sw_queue_lock, sw_running, sw_pc, sw_movement, sw_smooth,
                   sw_popped_log, sw_executed_log, sw_failed_log, sw_step_log, sw_stop_mark>>

\* while self.running:
SwLoopTest ==
    /\ sw_pc = "loop"
    /\ sw_pc' = IF sw_running THEN "lock" ELSE "dead"
    /\ UNCHANGED non_sw
    /\ UNCHANGED <<variant, next_id, virtual_x, virtual_y, screen_width, screen_height,
                   smooth_movement, total_movements, total_clicks, movement_queue,
                   sw_queue_lock, sw_running, sw_movement, sw_smooth, sw_call,
                   sw_enqueued_log, sw_popped_log, sw_executed_log, sw_failed_log, sw_step_log, sw_stop_mark>>

\* with self.queue_lock: if self.movement_queue: movement = self.movement_queue.pop(0)
\* On an empty queue the block ends at once and time.sleep(0.001) follows.
SwDequeue ==
    /\ sw_pc = "lock"
    /\ sw_queue_lock = "free"
    /\ IF movement_queue # <<>>
       THEN /\ sw_queue_lock' = "worker"
            /\ sw_movement' = Pop(movement_queue).item
            /\ movement_queue' = Pop(movement_queue).rest
            /\ sw_popped_log' = Append(sw_popped_log, Pop(movement_queue).item.id)
            /\ sw_pc' = "execute"
       ELSE /\ sw_pc' = "loop"
            /\ UNCHANGED <<sw_queue_lock, sw_movement, movement_queue, sw_popped_log>>
    /\ UNCHANGED non_sw
    /\ UNCHANGED <<variant, next_id, virtual_x, virtual_y, screen_width, screen_height,
                   smooth_movement, total_movements, total_clicks,
                   sw_running, sw_smooth, sw_call,
                   sw_enqueued_log, sw_executed_log, sw_failed_log, sw_step_log, sw_stop_mark>>

\* _execute_movement with no `except Exception` around its body (and none in
\* _simulation_loop): the exception ends the worker thread
SwExecuteMovementUncaught ==
    /\ sw_pc = "execute"
    /\ sw_executed_log' = Append(sw_executed_log, sw_movement.id)
    /\ \E raised \in BOOLEAN :
        IF raised
        THEN /\ sw_failed_log' = Append(sw_failed_log,
                                        [id |-> sw_movement.id, appended |-> Len(sw_enqueued_log)])
             /\ sw_pc' = "dead"
             /\ UNCHANGED <<virtual_x, virtual_y, total_movements, total_clicks,
                            sw_smooth, sw_step_log>>
        ELSE
         /\ UNCHANGED sw_failed_log
         /\ CASE sw_movement.action = "move_to" /\ sw_movement.duration > 0 /\ smooth_movement ->
                   /\ sw_smooth' = [start_x |-> virtual_x, start_y |-> virtual_y, k |-> -1]
                   /\ sw_pc' = "smooth"
                   /\ UNCHANGED <<virtual_x, virtual_y, total_movements, total_clicks, sw_step_log>>
              [] sw_movement.action = "move_to" /\ ~(sw_movement.duration > 0 /\ smooth_movement) ->
                   /\ virtual_x' = sw_movement.x
                   /\ virtual_y' = sw_movement.y
                   /\ total_movements' = total_movements + 1
                   /\ sw_step_log' = Append(sw_step_log, [id |-> sw_movement.id, final |-> TRUE])
                   /\ sw_pc' = "unlock"
                   /\ UNCHANGED <<total_clicks, sw_smooth>>
              [] sw_movement.action = "move_relative" ->
                   /\ virtual_x' = ClampCoord(virtual_x + sw_movement.dx, screen_width)
                   /\ virtual_y' = ClampCoord(virtual_y + sw_movement.dy, screen_height)
                   /\ total_movements' = total_movements + 1
                   /\ sw_pc' = "unlock"
                   /\ UNCHANGED <<total_clicks, sw_smooth, sw_step_log>>
              [] sw_movement.action = "click" ->
                   /\ total_clicks' = total_clicks + 1
                   /\ sw_pc' = "unlock"
                   /\ UNCHANGED <<virtual_x, virtual_y, total_movements, sw_smooth, sw_step_log>>
              [] OTHER ->
                   /\ sw_pc' = "unlock"
                   /\ UNCHANGED <<virtual_x, virtual_y, total_movements, total_clicks,
                                  sw_smooth, sw_step_log>>
    /\ UNCHANGED non_sw
    /\ UNCHANGED <<variant, next_id, screen_width, screen_height, smooth_movement,
                   movement_queue, sw_queue_lock, sw_running, sw_movement, sw_call,
                   sw_enqueued_log, sw_popped_log, sw_stop_mark>>

\* self._execute_movement(movement), up to the call of _smooth_move; an
\* exception raised in the body is caught by its `except Exception` and logged
SwExecuteMovement ==
    /\ sw_pc = "execute"
    /\ sw_executed_log' = Append(sw_executed_log, sw_movement.id)
    /\ \E raised \in BOOLEAN :
        IF raised
        THEN /\ sw_failed_log' = Append(sw_failed_log,
                                        [id |-> sw_movement.id, appended |-> Len(sw_enqueued_log)])
             /\ sw_pc' = "unlock"
             /\ UNCHANGED <<virtual_x, virtual_y, total_movements, total_clicks,
                            sw_smooth, sw_step_log>>
        ELSE
         /\ UNCHANGED sw_failed_log
         /\ CASE sw_movement.action = "move_to" /\ sw_movement.duration > 0 /\ smooth_movement ->
                   /\ sw_smooth' = [start_x |-> virtual_x, start_y |-> virtual_y, k |-> -1]
                   /\ sw_pc' = "smooth"
                   /\ UNCHANGED <<virtual_x, virtual_y, total_movements, total_clicks, sw_step_log>>
              [] sw_movement.action = "move_to" /\ ~(sw_movement.duration > 0 /\ smooth_movement) ->
                   /\ virtual_x' = sw_movement.x
                   /\ virtual_y' = sw_movement.y
                   /\ total_movements' = total_movements + 1
                   /\ sw_step_log' = Append(sw_step_log, [id |-> sw_movement.id, final |-> TRUE])
                   /\ sw_pc' = "unlock"
                   /\ UNCHANGED <<total_clicks, sw_smooth>>
              [] sw_movement.action = "move_relative" ->
                   /\ virtual_x' = ClampCoord(virtual_x + sw_movement.dx, screen_width)
                   /\ virtual_y' = ClampCoord(virtual_y + sw_movement.dy, screen_height)
                   /\ total_movements' = total_movements + 1
                   /\ sw_pc' = "unlock"
                   /\ UNCHANGED <<total_clicks, sw_smooth, sw_step_log>>
              [] sw_movement.action = "click" ->
                   /\ total_clicks' = total_clicks + 1
                   /\ sw_pc' = "unlock"
                   /\ UNCHANGED <<virtual_x, virtual_y, total_movements, sw_smooth, sw_step_log>>
              [] OTHER ->
                   /\ sw_pc' = "unlock"
                   /\ UNCHANGED <<virtual_x, virtual_y, total_movements, total_clicks,
                                  sw_smooth, sw_step_log>>
    /\ UNCHANGED non_sw
    /\ UNCHANGED <<variant, next_id, screen_width, screen_height, smooth_movement,
                   movement_queue, sw_queue_lock, sw_running, sw_movement, sw_call,
                   sw_enqueued_log, sw_popped_log, sw_stop_mark>>

\* one pass of `while time.time() - start_time < duration:` in _smooth_move;
\* the clock sample k / StepGrid is later than the previous one
SwSmoothStep ==
    /\ sw_pc = "smooth"
    /\ \E k \in 0..(StepGrid - 1) :
          /\ k > sw_smooth.k
          /\ virtual_x' = SmoothCoord(sw_smooth.start_x, sw_movement.x, k)
          /\ virtual_y' = SmoothCoord(sw_smooth.start_y, sw_movement.y, k)
          /\ sw_smooth' = [sw_smooth EXCEPT !.k = k]
    /\ sw_step_log' = Append(sw_step_log, [id |-> sw_movement.id, final |-> FALSE])
    /\ UNCHANGED non_sw
    /\ UNCHANGED <<variant, next_id, screen_width, screen_height, smooth_movement,
                   total_movements, total_clicks, movement_queue, sw_queue_lock,
                   sw_running, sw_pc, sw_movement, sw_call,
                   sw_enqueued_log, sw_popped_log, sw_executed_log, sw_failed_log, sw_stop_mark>>

\* _smooth_move without its closing assignment of the target
SwSmoothFinishNoTarget ==
    /\ sw_pc = "smooth"
    /\ total_movements' = total_movements + 1
    /\ sw_pc' = "unlock"
    /\ UNCHANGED non_sw
    /\ UNCHANGED <<variant, next_id, virtual_x, virtual_y, screen_width, screen_height,
                   smooth_movement, total_clicks, movement_queue, sw_queue_lock,
                   sw_running, sw_movement, sw_smooth, sw_call,
                   sw_enqueued_log, sw_popped_log, sw_executed_log, sw_failed_log, sw_step_log, sw_stop_mark>>

\* the loop of _smooth_move is left: virtual_x, virtual_y = target; back in
\* _execute_movement total_movements += 1
SwSmoothFinish ==
    /\ sw_pc = "smooth"
    /\ virtual_x' = sw_movement.x
    /\ virtual_y' = sw_movement.y
    /\ total_movements' = total_movements + 1
    /\ sw_step_log' = Append(sw_step_log, [id |-> sw_movement.id, final |-> TRUE])
    /\ sw_pc' = "unlock"
    /\ UNCHANGED non_sw
    /\ UNCHANGED <<variant, next_id, screen_width, screen_height, smooth_movement,
                   total_clicks, movement_queue, sw_queue_lock, sw_running,
                   sw_movement, sw_smooth, sw_call,
                   sw_enqueued_log, sw_popped_log, sw_executed_log, sw_failed_log, sw_stop_mark>>

\* end of the `with self.queue_lock:` block, then time.sleep(0.001)
SwUnlock ==
    /\ sw_pc = "unlock"
    /\ sw_queue_lock' = "free"
    /\ sw_movement' = NoCmd
    /\ sw_smooth' = [start_x |-> 0, start_y |-> 0, k |-> -1]
    /\ sw_pc' = "loop"
    /\ UNCHANGED non_sw
    /\ UNCHANGED <<variant, next_id, virtual_x, virtual_y, screen_width, screen_height,
                   smooth_movement, total_movements, total_clicks, movement_queue,
                   sw_running, sw_call,
                   sw_enqueued_log, sw_popped_log, sw_executed_log, sw_failed_log, sw_step_log, sw_stop_mark>>

\* stop(): self.running = False; the join(timeout=1.0) that follows makes
\* the caller wait and changes nothing
SwStop ==
    /\ variant = "software"
    /\ sw_running
    /\ sw_running' = FALSE
    /\ sw_stop_mark' = [called |-> TRUE, enqueued |-> Len(sw_enqueued_log),
                        popped |-> Len(sw_popped_log)]
    /\ UNCHANGED non_sw
    /\ UNCHANGED <<variant, next_id, virtual_x, virtual_y, screen_width, screen_height,
                   smooth_movement, total_movements, total_clicks, movement_queue,
                   sw_queue_lock, sw_pc, sw_movement, sw_smooth, sw_call,
                   sw_enqueued_log, sw_popped_log, sw_executed_log, sw_failed_log, sw_step_log>>

\* set_screen_size(width, height), called by any thread without queue_lock:
\* both dimensions are assigned, then _clamp_position
SwSetScreenSize(width, height) ==
    /\ variant = "software"
    /\ screen_width' = width
    /\ screen_height' = height
    /\ virtual_x' = ClampCoord(virtual_x, width)
    /\ virtual_y' = ClampCoord(virtual_y, height)
    /\ UNCHANGED non_sw
    /\ UNCHANGED <<variant, next_id, smooth_movement, total_movements, total_clicks,
                   movement_queue, sw_queue_lock, sw_running, sw_pc, sw_movement,
                   sw_smooth, sw_call, sw_enqueued_log, sw_popped_log,
                   sw_executed_log, sw_failed_log, sw_step_log, sw_stop_mark>>

SwNext ==
    \/ \E t \in Targets, d \in Durations : SwMoveTo(t[1], t[2], d)
    \/ \E t \in Deltas : SwMoveRelative(t[1], t[2])
    \/ SwClick
    \/ SwPress
    \/ SwRelease
    \/ SwScroll
    \/ SwAppend
    \/ SwLoopTest
    \/ SwDequeue
    \/ SwExecuteMovement
    \/ SwSmoothStep
    \/ SwSmoothFinish
    \/ SwUnlock
    \/ SwStop
    \/ \E size \in ScreenSizes : SwSetScreenSize(size[1], size[2])

\* ------------------------------------------------------- ArduinoController
max_retries == 3

\* `attempt < self.max_retries`: one pass too many
HasNextAttemptOffByOne(a) == a < max_retries

\* `attempt < self.max_retries - 1`: another pass of the connect loop follows
HasNextAttempt(a) == a < max_retries - 1

HwInit ==
    /\ is_connected = FALSE
    /\ serial_connection = "none"
    /\ command_queue = <<>>
    /\ hw_queue_lock = "free"
    /\ hw_running = FALSE
    /\ hw_pc = "none"
    /\ hw_command = NoCmd
    /\ hw_call = NoCmd
    /\ hw_constructed = FALSE
    /\ ctl_then = "idle"
    /\ attempt = 0
    /\ ctl_ops = 0
    /\ serial_log = <<>>
    /\ hw_enqueued_log = <<>>
    /\ hw_popped_log = <<>>
    /\ hw_executed_log = <<>>
    /\ hw_cleared_log = <<>>
    /\ hw_calls = 0
    /\ attempt_count = 0
    /\ attempt_log = <<>>
    /\ ping_written = FALSE
    /\ pong_read = FALSE
    /\ connect_result = "none"
    /\ started_by_connect = FALSE

\* __init__ has set the fields and is entering self.connect()
HwConstructing ==
    /\ HwInit
    /\ ctl_pc = "c_open"

HwAbsent ==
    /\ HwInit
    /\ ctl_pc = "none"

\* connect, one pass of the loop: serial.Serial(...) and time.sleep(2.0)
HwConnectOpen ==
    /\ ctl_pc = "c_open"
    /\ attempt_count' = attempt_count + 1
    /\ ping_written' = FALSE
    /\ pong_read' = FALSE
    /\ \E outcome \in {"opened", "SerialException", "Exception"} :
          CASE outcome = "opened" ->
                 /\ serial_connection' = "open"
                 /\ ctl_pc' = "c_ping"
                 /\ UNCHANGED attempt_log
            [] outcome = "SerialException" ->
                 /\ serial_connection' = "none"
                 /\ ctl_pc' = "c_retry"
                 /\ attempt_log' = Append(attempt_log, "failed")
            [] outcome = "Exception" ->
                 /\ ctl_pc' = "c_retry"
                 /\ attempt_log' = Append(attempt_log, "failed")
                 /\ UNCHANGED serial_connection
    /\ UNCHANGED non_hw
    /\ UNCHANGED <<variant, next_id, is_connected, command_queue, hw_queue_lock,
                   hw_running, hw_pc, hw_command, hw_call, hw_constructed, ctl_then,
                   attempt, ctl_ops, serial_log, hw_enqueued_log, hw_popped_log,
                   hw_executed_log, hw_cleared_log, hw_calls, connect_result,
                   started_by_connect>>

\* _test_communication: self._send_raw_command({"cmd": "ping"}), which writes
\* only `if self.serial_connection and self.is_connected`
HwConnectPing ==
    /\ ctl_pc = "c_ping"
    /\ IF serial_connection = "open" /\ is_connected
       THEN \E written \in BOOLEAN :
               IF written
               THEN /\ serial_log' = Append(serial_log, "ping")
                    /\ ping_written' = TRUE
                    /\ UNCHANGED is_connected
               ELSE /\ is_connected' = FALSE
                    /\ UNCHANGED <<serial_log, ping_written>>
       ELSE UNCHANGED <<serial_log, ping_written, is_connected>>
    /\ ctl_pc' = "c_wait"
    /\ UNCHANGED non_hw
    /\ UNCHANGED <<variant, next_id, serial_connection, command_queue, hw_queue_lock,
                   hw_running, hw_pc, hw_command, hw_call, hw_constructed, ctl_then,
                   attempt, ctl_ops, hw_enqueued_log, hw_popped_log,
                   hw_executed_log, hw_cleared_log, hw_calls, attempt_count,
                   attempt_log, pong_read, connect_result, started_by_connect>>

\* _test_communication: the 3 s wait for a line containing "pong"; on success
\* connect sets is_connected, calls _start_worker_thread and returns True,
\* otherwise it closes the port
HwConnectWait ==
    /\ ctl_pc = "c_wait"
    /\ \E reply \in {"pong", "none"} :
          IF reply = "pong"
          THEN /\ pong_read' = TRUE
               /\ is_connected' = TRUE
               /\ IF hw_pc \in {"none", "dead"}
                  THEN /\ hw_running' = TRUE
                       /\ hw_pc' = "loop"
                       /\ started_by_connect' = TRUE
                  ELSE UNCHANGED <<hw_running, hw_pc, started_by_connect>>
               /\ attempt_log' = Append(attempt_log, "connected")
               /\ connect_result' = "true"
               /\ hw_constructed' = TRUE
               /\ ctl_pc' = "idle"
               /\ UNCHANGED serial_connection
          ELSE /\ serial_connection' = "none"
               /\ attempt_log' = Append(attempt_log, "failed")
               /\ ctl_pc' = "c_retry"
               /\ UNCHANGED <<pong_read, is_connected, hw_running, hw_pc,
                              started_by_connect, connect_result, hw_constructed>>
    /\ UNCHANGED non_hw
    /\ UNCHANGED <<variant, next_id, command_queue, hw_queue_lock, hw_command, hw_call,
                   ctl_then, attempt, ctl_ops, serial_log, hw_enqueued_log,
                   hw_popped_log, hw_executed_log, hw_cleared_log, hw_calls,
                   attempt_count, ping_written>>

\* end of a failed pass: `if attempt < self.max_retries - 1: time.sleep(...)`,
\* then the next pass, or `return False` after the last one
HwConnectRetry ==
    /\ ctl_pc = "c_retry"
    /\ IF HasNextAttempt(attempt)
       THEN /\ attempt' = attempt + 1
            /\ ctl_pc' = "c_open"
            /\ UNCHANGED <<connect_result, hw_constructed>>
       ELSE /\ connect_result' = "false"
            /\ hw_constructed' = TRUE
            /\ ctl_pc' = "idle"
            /\ UNCHANGED attempt
    /\ UNCHANGED non_hw
    /\ UNCHANGED <<variant, next_id, is_connected, serial_connection, command_queue,
                   hw_queue_lock, hw_running, hw_pc, hw_command, hw_call, ctl_then,
                   ctl_ops, serial_log, hw_enqueued_log, hw_popped_log,
                   hw_executed_log, hw_cleared_log, hw_calls, attempt_count,
                   attempt_log, ping_written, pong_read, started_by_connect>>

\* disconnect(), first statement: self.running = False.  `follow` is "connect"
\* when the call comes from reconnect(), "idle" otherwise.
HwDisconnectBegin(follow) ==
    /\ variant = "serial"
    /\ ctl_pc = "idle"
    /\ ctl_ops < MaxCtlOps
    /\ ctl_ops' = ctl_ops + 1
    /\ hw_running' = FALSE
    /\ ctl_then' = follow
    /\ ctl_pc' = "d_join"
    /\ UNCHANGED non_hw
    /\ UNCHANGED <<variant, next_id, is_connected, serial_connection, command_queue,
                   hw_queue_lock, hw_pc, hw_command, hw_call, hw_constructed,
                   attempt, serial_log, hw_enqueued_log, hw_popped_log,
                   hw_executed_log, hw_cleared_log, hw_calls, attempt_count,
                   attempt_log, ping_written, pong_read, connect_result,
                   started_by_connect>>

HwDisconnect == HwDisconnectBegin("idle")

HwReconnect == HwDisconnectBegin("connect")

\* self.worker_thread.join(timeout=2.0): returns when the worker has exited
\* or when the timeout has elapsed, whichever comes first
HwDisconnectJoin ==
    /\ ctl_pc = "d_join"
    /\ ctl_pc' = "d_close"
    /\ UNCHANGED non_hw
    /\ UNCHANGED <<variant, next_id, is_connected, serial_connection, command_queue,
                   hw_queue_lock, hw_running, hw_pc, hw_command, hw_call,
                   hw_constructed, ctl_then, attempt, ctl_ops, serial_log,
                   hw_enqueued_log, hw_popped_log, hw_executed_log, hw_cleared_log,
                   hw_calls, attempt_count, attempt_log, ping_written, pong_read,
                   connect_result, started_by_connect>>

\* self.serial_connection.close(); self.serial_connection = None;
\* self.is_connected = False
HwDisconnectClose ==
    /\ ctl_pc = "d_close"
    /\ serial_connection' = "none"
    /\ is_connected' = FALSE
    /\ ctl_pc' = "d_clear"
    /\ UNCHANGED non_hw
    /\ UNCHANGED <<variant, next_id, command_queue,
                   hw_queue_lock, hw_running, hw_pc, hw_command, hw_call,
                   hw_constructed, ctl_then, attempt, ctl_ops, serial_log,
                   hw_enqueued_log, hw_popped_log, hw_executed_log, hw_cleared_log,
                   hw_calls, attempt_count, attempt_log, ping_written, pong_read,
                   connect_result, started_by_connect>>

\* with self.queue_lock: self.command_queue.clear(); disconnect returns, and
\* inside reconnect() connect() is entered after time.sleep(1.0)
HwDisconnectClear ==
    /\ ctl_pc = "d_clear"
    /\ hw_queue_lock = "free"
    /\ command_queue' = <<>>
    /\ hw_cleared_log' = hw_cleared_log \o [i \in 1..Len(command_queue) |-> command_queue[i].id]
    /\ IF ctl_then = "connect"
       THEN /\ ctl_pc' = "c_open"
            /\ attempt' = 0
            /\ attempt_count' = 0
            /\ attempt_log' = <<>>
            /\ connect_result' = "none"
            /\ started_by_connect' = FALSE
       ELSE /\ ctl_pc' = "idle"
            /\ UNCHANGED <<attempt, attempt_count, attempt_log, connect_result,
                           started_by_connect>>
    /\ UNCHANGED non_hw
    /\ UNCHANGED <<variant, next_id, is_connected, serial_connection,
                   hw_queue_lock, hw_running, hw_pc, hw_command, hw_call,
                   hw_constructed, ctl_then, ctl_ops, serial_log,
                   hw_enqueued_log, hw_popped_log, hw_executed_log,
                   hw_calls, ping_written, pong_read>>

\* while self.running and self.is_connected:
HwLoopTest ==
    /\ hw_pc = "loop"
    /\ hw_pc' = IF hw_running /\ is_connected THEN "lock" ELSE "dead"
    /\ UNCHANGED non_hw
    /\ UNCHANGED <<variant, next_id, is_connected, serial_connection, command_queue,
                   hw_queue_lock, hw_running, hw_command, hw_call,
                   hw_constructed, ctl_pc, ctl_then, attempt, ctl_ops, serial_log,
                   hw_enqueued_log, hw_popped_log, hw_executed_log, hw_cleared_log,
                   hw_calls, attempt_count, attempt_log, ping_written, pong_read,
                   connect_result, started_by_connect>>

\* with self.queue_lock: if self.command_queue: command = self.command_queue.pop(0)
\* On an empty queue the block ends at once and time.sleep(0.001) follows.
HwDequeue ==
    /\ hw_pc = "lock"
    /\ hw_queue_lock = "free"
    /\ IF command_queue # <<>>
       THEN /\ hw_queue_lock' = "worker"
            /\ hw_command' = Pop(command_queue).item
            /\ command_queue' = Pop(command_queue).rest
            /\ hw_popped_log' = Append(hw_popped_log, Pop(command_queue).item.id)
            /\ hw_pc' = "send"
       ELSE /\ hw_pc' = "loop"
            /\ UNCHANGED <<hw_queue_lock, hw_command, command_queue, hw_popped_log>>
    /\ UNCHANGED non_hw
    /\ UNCHANGED <<variant, next_id, is_connected, serial_connection,
                   hw_running, hw_call,
                   hw_constructed, ctl_pc, ctl_then, attempt, ctl_ops, serial_log,
                   hw_enqueued_log, hw_executed_log, hw_cleared_log,
                   hw_calls, attempt_count, attempt_log, ping_written, pong_read,
                   connect_result, started_by_connect>>

\* self._send_raw_command(command): write and flush when the channel is usable;
\* a failing write is logged and clears is_connected
HwSendRawCommand ==
    /\ hw_pc = "send"
    /\ hw_executed_log' = Append(hw_executed_log, hw_command.id)
    /\ IF serial_connection = "open" /\ is_connected
       THEN \E written \in BOOLEAN :
               IF written
               THEN /\ serial_log' = Append(serial_log, hw_command.id)
                    /\ UNCHANGED is_connected
               ELSE /\ is_connected' = FALSE
                    /\ UNCHANGED serial_log
       ELSE UNCHANGED <<serial_log, is_connected>>
    /\ hw_pc' = "unlock"
    /\ UNCHANGED non_hw
    /\ UNCHANGED <<variant, next_id, serial_connection, command_queue,
                   hw_queue_lock, hw_running, hw_command, hw_call,
                   hw_constructed, ctl_pc, ctl_then, attempt, ctl_ops,
                   hw_enqueued_log, hw_popped_log, hw_cleared_log,
                   hw_calls, attempt_count, attempt_log, ping_written, pong_read,
                   connect_result, started_by_connect>>

\* end of the `with self.queue_lock:` block, then time.sleep(0.001)
HwUnlock ==
    /\ hw_pc = "unlock"
    /\ hw_queue_lock' = "free"
    /\ hw_command' = NoCmd
    /\ hw_pc' = "loop"
    /\ UNCHANGED non_hw
    /\ UNCHANGED <<variant, next_id, is_connected, serial_connection, command_queue,
                   hw_running, hw_call,
                   hw_constructed, ctl_pc, ctl_then, attempt, ctl_ops, serial_log,
                   hw_enqueued_log, hw_popped_log, hw_executed_log, hw_cleared_log,
                   hw_calls, attempt_count, attempt_log, ping_written, pong_read,
                   connect_result, started_by_connect>>

\* a command operation without its `if not self.is_connected: return`
HwBuildUnguarded(cmd) ==
    /\ variant = "serial"
    /\ hw_constructed
    /\ hw_call = NoCmd
    /\ next_id <= MaxCmds
    /\ next_id' = next_id + 1
    /\ hw_calls' = hw_calls + 1
    /\ hw_call' = cmd
    /\ UNCHANGED non_hw
    /\ UNCHANGED <<variant, is_connected, serial_connection, command_queue,
                   hw_queue_lock, hw_running, hw_pc, hw_command,
                   hw_constructed, ctl_pc, ctl_then, attempt, ctl_ops, serial_log,
                   hw_enqueued_log, hw_popped_log, hw_executed_log, hw_cleared_log,
                   attempt_count, attempt_log, ping_written, pong_read,
                   connect_result, started_by_connect>>

\* a command operation: `if not self.is_connected: return`, else build the
\* command; the append under queue_lock is HwAppend
HwBuild(cmd) ==
    /\ variant = "serial"
    /\ hw_constructed
    /\ hw_call = NoCmd
    /\ next_id <= MaxCmds
    /\ next_id' = next_id + 1
    /\ hw_calls' = hw_calls + 1
    /\ hw_call' = IF is_connected THEN cmd ELSE NoCmd
    /\ UNCHANGED non_hw
    /\ UNCHANGED <<variant, is_connected, serial_connection, command_queue,
                   hw_queue_lock, hw_running, hw_pc, hw_command,
                   hw_constructed, ctl_pc, ctl_then, attempt, ctl_ops, serial_log,
                   hw_enqueued_log, hw_popped_log, hw_executed_log, hw_cleared_log,
                   attempt_count, attempt_log, ping_written, pong_read,
                   connect_result, started_by_connect>>

\* command = {"cmd": "move_abs", "x": int(x), "y": int(y)}; duration is unused
HwMoveTo(x, y, duration) == HwBuild(Cmd(next_id, "move_abs", x, y, 0, 0, 0))

HwMoveRelative(dx, dy) == HwBuild(Cmd(next_id, "move_rel", 0, 0, dx, dy, 0))

HwClick == HwBuild(Cmd(next_id, "click", 0, 0, 0, 0, 0))

HwPress == HwBuild(Cmd(next_id, "press", 0, 0, 0, 0, 0))

HwRelease == HwBuild(Cmd(next_id, "release", 0, 0, 0, 0, 0))

HwScroll == HwBuild(Cmd(next_id, "scroll", 0, 0, 0, 0, 0))

HwSendCustomCommand == HwBuild(Cmd(next_id, "custom", 0, 0, 0, 0, 0))

\* with self.queue_lock: self.command_queue.append(command)
HwAppend ==
    /\ hw_call # NoCmd
    /\ hw_queue_lock = "free"
    /\ command_queue' = Append(command_queue, hw_call)
    /\ hw_enqueued_log' = Append(hw_enqueued_log, hw_call.id)
    /\ hw_call' = NoCmd
    /\ UNCHANGED non_hw
    /\ UNCHANGED <<variant, next_id, is_connected, serial_connection,
                   hw_queue_lock, hw_running, hw_pc, hw_command,
                   hw_constructed, ctl_pc, ctl_then, attempt, ctl_ops, serial_log,
                   hw_popped_log, hw_executed_log, hw_cleared_log, hw_calls,
                   attempt_count, attempt_log, ping_written, pong_read,
                   connect_result, started_by_connect>>

HwNext ==
    \/ HwConnectOpen
    \/ HwConnectPing
    \/ HwConnectWait
    \/ HwConnectRetry
    \/ HwDisconnect
    \/ HwReconnect
    \/ HwDisconnectJoin
    \/ HwDisconnectClose
    \/ HwDisconnectClear
    \/ HwLoopTest
    \/ HwDequeue
    \/ HwSendRawCommand
    \/ HwUnlock
    \/ \E t \in Targets, d \in Durations : HwMoveTo(t[1], t[2], d)
    \/ \E t \in Deltas : HwMoveRelative(t[1], t[2])
    \/ HwClick
    \/ HwPress
    \/ HwRelease
    \/ HwScroll
    \/ HwSendCustomCommand
    \/ HwAppend

\* ------------------------------------------------------ DLLMouseController
\* norm = int(v * 65535 / size), the absolute coordinate given to mouse_event
Normalize(v, size) == (v * 65535) \div size

\* 60 steps per second
StepRate == 60

\* steps = max(int(duration * 60), 1)
StepCount(duration) == Max((duration * StepRate) \div DurationDen, 1)

\* progress = 1 - (1 - i / steps) ** 2, then int(start + (target - start) * progress)
EasedCoord(start, target, i, steps) ==
    start + (((target - start) * (steps * steps - (steps - i) * (steps - i))) \div (steps * steps))

NvInit ==
    /\ nv_cursor = <<DefaultVirtualX, DefaultVirtualY>>
    /\ nv_move = [id |-> 0, target_x |-> 0, target_y |-> 0, start_x |-> 0,
                  start_y |-> 0, duration |-> 0, steps |-> 1, i |-> 0]
    /\ nv_target_log = <<>>
    /\ nv_dispatch_log = <<>>

NvConstructed ==
    /\ NvInit
    /\ nv_pc = "idle"

NvAbsent ==
    /\ NvInit
    /\ nv_pc = "none"

\* _instant_move_to(x, y) as an entry of the dispatch log
InstantMoveTo(i, x, y) ==
    [id |-> i, x |-> x, y |-> y,
     norm_x |-> Normalize(x, DefaultScreenWidth),
     norm_y |-> Normalize(y, DefaultScreenHeight)]

\* move_to(x, y, duration) up to the stepping loop of _smooth_move_to;
\* `pos` is the result of get_position(), "none" when GetCursorPos fails
NvMoveTo(x, y, duration) ==
    /\ nv_pc = "idle"
    /\ next_id <= MaxCmds
    /\ next_id' = next_id + 1
    /\ LET tx == ClampCoord(x, DefaultScreenWidth)
           ty == ClampCoord(y, DefaultScreenHeight)
       IN  /\ nv_target_log' = Append(nv_target_log, [id |-> next_id, x |-> tx, y |-> ty])
           /\ IF duration > 0
              THEN \E pos \in {"none", "cursor"} :
                      IF pos = "none"
                      THEN /\ nv_dispatch_log' = Append(nv_dispatch_log, InstantMoveTo(next_id, tx, ty))
                           /\ nv_cursor' = <<tx, ty>>
                           /\ UNCHANGED <<nv_pc, nv_move>>
                      ELSE IF nv_cursor = <<tx, ty>>
                           THEN UNCHANGED <<nv_dispatch_log, nv_cursor, nv_pc, nv_move>>
                           ELSE /\ nv_move' = [id |-> next_id, target_x |-> tx, target_y |-> ty,
                                               start_x |-> nv_cursor[1], start_y |-> nv_cursor[2],
                                               duration |-> duration,
                                               steps |-> StepCount(duration), i |-> 0]
                                /\ nv_pc' = "step"
                                /\ UNCHANGED <<nv_dispatch_log, nv_cursor>>
              ELSE /\ nv_dispatch_log' = Append(nv_dispatch_log, InstantMoveTo(next_id, tx, ty))
                   /\ nv_cursor' = <<tx, ty>>
                   /\ UNCHANGED <<nv_pc, nv_move>>
    /\ UNCHANGED non_nv
    /\ UNCHANGED variant

\* one pass of `for i in range(steps + 1):` in _smooth_move_to
NvSmoothStep ==
    /\ nv_pc = "step"
    /\ LET cx == EasedCoord(nv_move.start_x, nv_move.target_x, nv_move.i, nv_move.steps)
           cy == EasedCoord(nv_move.start_y, nv_move.target_y, nv_move.i, nv_move.steps)
       IN  /\ nv_dispatch_log' = Append(nv_dispatch_log, InstantMoveTo(nv_move.id, cx, cy))
           /\ nv_cursor' = <<cx, cy>>
    /\ IF nv_move.i < nv_move.steps
       THEN /\ nv_move' = [nv_move EXCEPT !.i = @ + 1]
            /\ UNCHANGED nv_pc
       ELSE /\ nv_pc' = "idle"
            /\ UNCHANGED nv_move
    /\ UNCHANGED non_nv
    /\ UNCHANGED <<variant, next_id, nv_target_log>>

NvNext ==
    \/ \E t \in Targets, d \in Durations : NvMoveTo(t[1], t[2], d)
    \/ NvSmoothStep

\* --------------------------------------------------------- DetectionThread
\* settings['confidence_threshold'], in percent
confidence_threshold == 50

Confidences == {30, 60, 90}

\* a detection as the loop reads it: its confidence and its center
Detection(c, n) == [confidence |-> c, center |-> <<100 * n, 100 * n + 1>>]

\* the ordered lists detector.detect may return
DetectionLists ==
    {<<>>} \cup { <<Detection(c, 1)>> : c \in Confidences }
           \cup { <<Detection(c, 1), Detection(d, 2)>> : c \in Confidences, d \in Confidences }

Bump(n) == Min(n + 1, MaxIters)

\* the qualifying detection with the highest confidence instead of the first
FirstQualifyingByConfidence(detections) ==
    LET hits == { i \in 1..Len(detections) : detections[i].confidence >= confidence_threshold }
    IN  IF hits = {} THEN 0
        ELSE CHOOSE i \in hits :
                \A j \in hits : \/ detections[j].confidence < detections[i].confidence
                                \/ (detections[j].confidence = detections[i].confidence /\ i <= j)

\* index of the first detection with confidence >= threshold, 0 when none:
\* the `for detection in detections: if ...: ...; break` scan
FirstQualifying(detections) ==
    LET hits == { i \in 1..Len(detections) : detections[i].confidence >= confidence_threshold }
    IN  IF hits = {} THEN 0 ELSE CHOOSE i \in hits : \A j \in hits : i <= j

\* one call made by the loop body, with the center it was made for
Event(op, center) == [op |-> op, center |-> center]

DtInit ==
    /\ dt_running = FALSE
    /\ dt_frame = "unset"
    /\ dt_detections = <<>>
    /\ dt_selected = 0
    /\ dt_trace = <<>>
    /\ dt_error_pending = FALSE
    /\ gui_errors = 0
    /\ is_running = FALSE
    /\ gui_pc = "idle"
    /\ stop_called = FALSE
    /\ dt_counts = [iterations |-> 0, capture |-> 0, none |-> 0, frame |-> 0,
                    capture_raise |-> 0, detect |-> 0,
                    smooth |-> 0, move_to |-> 0, emit |-> 0, sleep |-> 0,
                    error |-> 0]

\* ObjectDetectionGUI.__init__: no thread yet, is_running = False
DtIdle ==
    /\ DtInit
    /\ dt_pc = "unstarted"

DtAbsent ==
    /\ DtInit
    /\ dt_pc = "none"

\* start_detection: DetectionThread(...) is constructed (running = False),
\* start() spawns the thread, is_running = True
GuiStartDetection ==
    /\ dt_pc = "unstarted"
    /\ gui_pc = "idle"
    /\ ~is_running
    /\ dt_pc' = "entry"
    /\ is_running' = TRUE
    /\ UNCHANGED <<dt_running, dt_frame, dt_detections, dt_selected, dt_trace,
                   dt_error_pending, gui_errors, gui_pc, stop_called, dt_counts>>
    /\ UNCHANGED non_dt

\* run(): self.running = True
DtRunEntry ==
    /\ dt_pc = "entry"
    /\ dt_running' = TRUE
    /\ dt_pc' = "test"
    /\ UNCHANGED <<dt_frame, dt_detections, dt_selected, dt_trace,
                   dt_error_pending, gui_errors, is_running, gui_pc,
                   stop_called, dt_counts>>
    /\ UNCHANGED non_dt

\* while self.running:
DtLoopTest ==
    /\ dt_pc = "test"
    /\ IF dt_running
       THEN /\ dt_pc' = "capture"
            /\ dt_trace' = <<>>
            /\ dt_counts' = [dt_counts EXCEPT !.iterations = Bump(@)]
       ELSE /\ dt_pc' = "finished"
            /\ UNCHANGED <<dt_trace, dt_counts>>
    /\ UNCHANGED <<dt_running, dt_frame, dt_detections, dt_selected,
                   dt_error_pending, gui_errors, is_running, gui_pc, stop_called>>
    /\ UNCHANGED non_dt

\* the capture step without `if frame is None: continue`
DtCaptureNoContinue ==
    /\ dt_pc = "capture"
    /\ \E frame \in {"frame", "none", "raise"} :
          /\ dt_frame' = frame
          /\ dt_pc' = IF frame = "raise" THEN "except" ELSE "detect"
          /\ dt_counts' = [dt_counts EXCEPT !.capture = Bump(@),
                              !.none = IF frame = "none" THEN Bump(@) ELSE @,
                              !.frame = IF frame = "frame" THEN Bump(@) ELSE @,
                              !.capture_raise = IF frame = "raise" THEN Bump(@) ELSE @]
    /\ UNCHANGED <<dt_running, dt_detections, dt_selected, dt_trace,
                   dt_error_pending, gui_errors, is_running, gui_pc, stop_called>>
    /\ UNCHANGED non_dt

\* frame = self.capture.capture(); if frame is None: continue
DtCapture ==
    /\ dt_pc = "capture"
    /\ \E frame \in {"frame", "none", "raise"} :
          /\ dt_frame' = frame
          /\ dt_pc' = CASE frame = "frame" -> "detect"
                        [] frame = "none" -> "test"
                        [] frame = "raise" -> "except"
          /\ dt_counts' = [dt_counts EXCEPT !.capture = Bump(@),
                              !.none = IF frame = "none" THEN Bump(@) ELSE @,
                              !.frame = IF frame = "frame" THEN Bump(@) ELSE @,
                              !.capture_raise = IF frame = "raise" THEN Bump(@) ELSE @]
    /\ UNCHANGED <<dt_running, dt_detections, dt_selected, dt_trace,
                   dt_error_pending, gui_errors, is_running, gui_pc, stop_called>>
    /\ UNCHANGED non_dt

\* detections = self.detector.detect(frame, ...), then the scan for the first
\* detection with confidence >= threshold
DtDetect ==
    /\ dt_pc = "detect"
    /\ dt_counts' = [dt_counts EXCEPT !.detect = Bump(@)]
    /\ \E raised \in BOOLEAN :
          IF raised
          THEN /\ dt_pc' = "except"
               /\ UNCHANGED <<dt_detections, dt_selected>>
          ELSE \E detections \in DetectionLists :
                  /\ dt_detections' = detections
                  /\ dt_selected' = FirstQualifying(detections)
                  /\ dt_pc' = IF FirstQualifying(detections) = 0 THEN "sleep" ELSE "smooth"
    /\ UNCHANGED <<dt_running, dt_frame, dt_trace, dt_error_pending, gui_errors,
                   is_running, gui_pc, stop_called>>
    /\ UNCHANGED non_dt

\* x, y = detection['center'];
\* smooth_x, smooth_y = self.smoother.smooth(x, y, settings['smoothing_factor'])
DtSmooth ==
    /\ dt_pc = "smooth"
    /\ dt_counts' = [dt_counts EXCEPT !.smooth = Bump(@)]
    /\ dt_trace' = Append(dt_trace, Event("smooth", dt_detections[dt_selected].center))
    /\ \E raised \in BOOLEAN : dt_pc' = IF raised THEN "except" ELSE "move"
    /\ UNCHANGED <<dt_running, dt_frame, dt_detections, dt_selected,
                   dt_error_pending, gui_errors, is_running, gui_pc, stop_called>>
    /\ UNCHANGED non_dt

\* if self.mouse_controller: self.mouse_controller.move_to(smooth_x, smooth_y)
\* (setup_movement_control always constructs a controller before the thread)
DtMoveTo ==
    /\ dt_pc = "move"
    /\ dt_counts' = [dt_counts EXCEPT !.move_to = Bump(@)]
    /\ dt_trace' = Append(dt_trace, Event("move_to", dt_detections[dt_selected].center))
    /\ \E raised \in BOOLEAN : dt_pc' = IF raised THEN "except" ELSE "emit"
    /\ UNCHANGED <<dt_running, dt_frame, dt_detections, dt_selected,
                   dt_error_pending, gui_errors, is_running, gui_pc, stop_called>>
    /\ UNCHANGED non_dt

\* self.detection_result.emit({...}); break
DtEmit ==
    /\ dt_pc = "emit"
    /\ dt_counts' = [dt_counts EXCEPT !.emit = Bump(@)]
    /\ dt_trace' = Append(dt_trace, Event("emit", dt_detections[dt_selected].center))
    /\ \E raised \in BOOLEAN : dt_pc' = IF raised THEN "except" ELSE "sleep"
    /\ UNCHANGED <<dt_running, dt_frame, dt_detections, dt_selected,
                   dt_error_pending, gui_errors, is_running, gui_pc, stop_called>>
    /\ UNCHANGED non_dt

\* time.sleep(1.0 / self.settings.get('max_fps', 30)); the division raises
\* when max_fps is 0
DtSleep ==
    /\ dt_pc = "sleep"
    /\ dt_counts' = [dt_counts EXCEPT !.sleep = Bump(@)]
    /\ \E raised \in BOOLEAN : dt_pc' = IF raised THEN "except" ELSE "test"
    /\ UNCHANGED <<dt_running, dt_frame, dt_detections, dt_selected, dt_trace,
                   dt_error_pending, gui_errors, is_running, gui_pc, stop_called>>
    /\ UNCHANGED non_dt

\* except Exception: logger.error; self.error_occurred.emit(str(e)); break
\* (the signal is queued for the GUI thread; self.running is left as it is)
DtExcept ==
    /\ dt_pc = "except"
    /\ dt_counts' = [dt_counts EXCEPT !.error = Bump(@)]
    /\ dt_error_pending' = TRUE
    /\ dt_pc' = "finished"
    /\ UNCHANGED <<dt_running, dt_frame, dt_detections, dt_selected, dt_trace,
                   gui_errors, is_running, gui_pc, stop_called>>
    /\ UNCHANGED non_dt

\* stop_detection: self.detection_thread.stop() sets running = False, then
\* self.detection_thread.wait()
GuiStopDetection ==
    /\ gui_pc = "idle"
    /\ is_running
    /\ dt_running' = FALSE
    /\ stop_called' = TRUE
    /\ gui_pc' = "wait"
    /\ UNCHANGED <<dt_pc, dt_frame, dt_detections, dt_selected, dt_trace,
                   dt_error_pending, gui_errors, is_running, dt_counts>>
    /\ UNCHANGED non_dt

\* on_detection_error, the slot of error_occurred: show_error, then
\* stop_detection (stop() sets running = False, then wait())
GuiOnDetectionError ==
    /\ gui_pc = "idle"
    /\ dt_error_pending
    /\ dt_error_pending' = FALSE
    /\ gui_errors' = Bump(gui_errors)
    /\ dt_running' = FALSE
    /\ stop_called' = TRUE
    /\ gui_pc' = "wait"
    /\ UNCHANGED <<dt_pc, dt_frame, dt_detections, dt_selected, dt_trace,
                   is_running, dt_counts>>
    /\ UNCHANGED non_dt

\* wait() returns once run() has returned; is_running = False
GuiWaitReturns ==
    /\ gui_pc = "wait"
    /\ dt_pc = "finished"
    /\ gui_pc' = "idle"
    /\ is_running' = FALSE
    /\ UNCHANGED <<dt_running, dt_pc, dt_frame, dt_detections, dt_selected,
                   dt_trace, dt_error_pending, gui_errors, stop_called, dt_counts>>
    /\ UNCHANGED non_dt

DtNext ==
    \/ GuiStartDetection
    \/ DtRunEntry
    \/ DtLoopTest
    \/ DtCapture
    \/ DtDetect
    \/ DtSmooth
    \/ DtMoveTo
    \/ DtEmit
    \/ DtSleep
    \/ DtExcept
    \/ GuiStopDetection
    \/ GuiOnDetectionError
    \/ GuiWaitReturns

\* -------------------------------------------------------- MovementSmoother
\* Floating-point quantities are fixed-point integers: positions in units of
\* 1/PosScale pixel, factors in tenths, time in clock ticks of 10 ms and
\* velocities in position units per tick.  A division rounds down to the grid.
PosScale == 10
FactorDen == 10
TicksPerSecond == 100

DefaultWindowSize == 5
DefaultSmoothingFactor == 5                                  \* 0.5
jitter_threshold == 2 * PosScale                             \* 2.0 pixels
JitterFactor == 2                                            \* 0.2
max_velocity == (1000 * PosScale) \div TicksPerSecond        \* 1000 pixels per second
VelocityFactor == 3                                          \* 0.3

\* Python's None where a tuple is expected, and where a time is expected
None == <<>>
NoTime == -1

\* arguments the callers pass
RawPoints == {<<0, 0>>, <<1, 1>>, <<60, 30>>}     \* pixels
CustomFactors == {None, <<0>>, <<10>>}            \* custom_factor: None, 0.0, 1.0
ClockSteps == {0, 1}                              \* ticks elapsed since the previous call
FactorArgs == {-3, 15}                            \* set_smoothing_factor(-0.3), (1.5)
WindowSizeArgs == {-1, 0, 2}
TimeAheads == {2}                                 \* predict_position(0.02)

NoCall == [raw |-> None, prev_raw |-> None, prev |-> None, custom |-> None,
           requested |-> 0, factor |-> 0, result |-> None, since |-> 0, hist |-> 0]

\* deque.append on a deque with the given maxlen
DequeAppend(q, e, maxlen) ==
    LET a == Append(q, e)
    IN  IF Len(a) > maxlen THEN SubSeq(a, Len(a) - maxlen + 1, Len(a)) ELSE a

\* deque(q, maxlen=size): the newest `size` elements are kept
DequeResize(q, size) ==
    IF Len(q) > size THEN SubSeq(q, Len(q) - size + 1, Len(q)) ELSE q

\* np.exp(-k / 2.0) for k = 0, 1, ..., times 10^4
Weights == <<10000, 6065, 3679, 2231, 1353, 821, 498, 302>>

RECURSIVE WeightedSum(_, _, _)
WeightedSum(temp, c, i) ==
    IF i > Len(temp) THEN 0
    ELSE Weights[Len(temp) - i + 1] * temp[i][c] + WeightedSum(temp, c, i + 1)

RECURSIVE WeightTotal(_)
WeightTotal(n) == IF n = 0 THEN 0 ELSE Weights[n] + WeightTotal(n - 1)

\* _apply_moving_average: the weighted mean of the history and the new
\* position, the newest entry weighing most
MovingAverage(history, p) ==
    LET temp == Append(history, p)
    IN  << WeightedSum(temp, 1, 1) \div WeightTotal(Len(temp)),
           WeightedSum(temp, 2, 1) \div WeightTotal(Len(temp)) >>

SmInit ==
    /\ window_size = DefaultWindowSize
    /\ sm_maxlen = DefaultWindowSize
    /\ smoothing_factor = DefaultSmoothingFactor
    /\ position_history = <<>>
    /\ velocity_history = <<>>
    /\ last_position = None
    /\ last_time = NoTime
    /\ current_velocity = <<0, 0>>
    /\ sm_now = 0
    /\ sm_call = NoCall
    /\ sm_last_op = "init"
    /\ sm_predicted = None
    /\ sm_since = 0
    /\ sm_ops = 0

\* MovementSmoother() as DetectionThread.__init__ constructs it
SmConstructed ==
    /\ SmInit
    /\ sm_pc = "ready"

SmAbsent ==
    /\ SmInit
    /\ sm_pc = "none"

\* what smooth() returns and leaves behind once a previous sample exists
SmoothNext(raw, requested, now) ==
    LET elapsed == now - last_time
        dx == raw[1] - last_position[1]
        dy == raw[2] - last_position[2]
        velocity == IF elapsed > 0 THEN <<dx \div elapsed, dy \div elapsed>>
                    ELSE current_velocity
        jitter == dx * dx + dy * dy < jitter_threshold * jitter_threshold
        f1 == IF jitter THEN Min(requested, JitterFactor) ELSE requested
        fast == velocity[1] * velocity[1] + velocity[2] * velocity[2]
                   > max_velocity * max_velocity
        factor == IF fast THEN Min(f1, VelocityFactor) ELSE f1
        exp == << last_position[1] + ((factor * dx) \div FactorDen),
                  last_position[2] + ((factor * dy) \div FactorDen) >>
        smoothed == IF Len(position_history) >= 2
                    THEN MovingAverage(position_history, exp)
                    ELSE exp
    IN  [result |-> smoothed,
         factor |-> factor,
         velocity_history |-> IF elapsed > 0
                              THEN DequeAppend(velocity_history, velocity, sm_maxlen)
                              ELSE velocity_history,
         current_velocity |-> velocity]

\* smooth(x, y, custom_factor), called dt ticks after the previous call
SmSmooth(x, y, custom, dt) ==
    /\ sm_pc = "ready"
    /\ sm_ops < MaxCalls
    /\ sm_ops' = sm_ops + 1
    /\ sm_last_op' = "smooth"
    /\ sm_since' = sm_since + 1
    /\ sm_now' = sm_now + dt
    /\ last_time' = sm_now + dt
    /\ LET raw == <<x * PosScale, y * PosScale>>
           requested == IF custom = None THEN smoothing_factor ELSE custom[1]
           call == [raw |-> raw,
                    prev_raw |-> IF sm_since = 0 THEN None ELSE sm_call.raw,
                    prev |-> last_position, custom |-> custom,
                    requested |-> requested, factor |-> requested,
                    result |-> None, since |-> sm_since,
                    hist |-> Len(position_history)]
       IN  IF last_position = None
           THEN /\ last_position' = raw
                /\ position_history' = DequeAppend(position_history, raw, sm_maxlen)
                /\ sm_call' = [call EXCEPT !.result = raw]
                /\ UNCHANGED <<velocity_history, current_velocity>>
           ELSE LET next == SmoothNext(raw, requested, sm_now + dt)
                IN  /\ last_position' = next.result
                    /\ position_history' = DequeAppend(position_history, next.result, sm_maxlen)
                    /\ velocity_history' = next.velocity_history
                    /\ current_velocity' = next.current_velocity
                    /\ sm_call' = [call EXCEPT !.result = next.result,
                                                !.factor = next.factor]
    /\ UNCHANGED <<sm_pc, window_size, sm_maxlen, smoothing_factor, sm_predicted>>
    /\ UNCHANGED non_sm

RECURSIVE SumCoord(_, _)
SumCoord(s, c) == IF s = <<>> THEN 0 ELSE Head(s)[c] + SumCoord(Tail(s), c)

\* predict_position(time_ahead): None without a position or a velocity sample,
\* else last position + mean of the newest three velocities * time_ahead
PredictPosition(time_ahead) ==
    IF last_position = None \/ velocity_history = <<>>
    THEN None
    ELSE LET n == Len(velocity_history)
             recent == SubSeq(velocity_history, Max(1, n - 2), n)
         IN  << last_position[1] + (SumCoord(recent, 1) \div Len(recent)) * time_ahead,
                last_position[2] + (SumCoord(recent, 2) \div Len(recent)) * time_ahead >>

SmPredict(time_ahead) ==
    /\ sm_pc = "ready"
    /\ sm_ops < MaxCalls
    /\ sm_ops' = sm_ops + 1
    /\ sm_last_op' = "predict"
    /\ sm_predicted' = PredictPosition(time_ahead)
    /\ UNCHANGED <<sm_pc, window_size, sm_maxlen, smoothing_factor, position_history,
                   velocity_history, last_position, last_time, current_velocity,
                   sm_now, sm_call, sm_since>>
    /\ UNCHANGED non_sm

\* set_smoothing_factor(factor) that stores its argument as it is
SmSetSmoothingFactorUnclamped(factor) ==
    /\ sm_pc = "ready"
    /\ sm_ops < MaxCalls
    /\ sm_ops' = sm_ops + 1
    /\ sm_last_op' = "set_smoothing_factor"
    /\ smoothing_factor' = factor
    /\ UNCHANGED <<sm_pc, window_size, sm_maxlen, position_history,
                   velocity_history, last_position, last_time, current_velocity,
                   sm_now, sm_call, sm_predicted, sm_since>>
    /\ UNCHANGED non_sm

\* set_smoothing_factor(factor)
SmSetSmoothingFactor(factor) ==
    /\ sm_pc = "ready"
    /\ sm_ops < MaxCalls
    /\ sm_ops' = sm_ops + 1
    /\ sm_last_op' = "set_smoothing_factor"
    /\ smoothing_factor' = Max(0, Min(FactorDen, factor))
    /\ UNCHANGED <<sm_pc, window_size, sm_maxlen, position_history,
                   velocity_history, last_position, last_time, current_velocity,
                   sm_now, sm_call, sm_predicted, sm_since>>
    /\ UNCHANGED non_sm

\* set_window_size(size): window_size is assigned first, then both deques are
\* rebuilt with maxlen=size, which raises ValueError for a negative size
SmSetWindowSize(size) ==
    /\ sm_pc = "ready"
    /\ sm_ops < MaxCalls
    /\ sm_ops' = sm_ops + 1
    /\ sm_last_op' = "set_window_size"
    /\ window_size' = Max(1, size)
    /\ IF size < 0
       THEN UNCHANGED <<sm_maxlen, position_history, velocity_history>>
       ELSE /\ sm_maxlen' = size
            /\ position_history' = DequeResize(position_history, size)
            /\ velocity_history' = DequeResize(velocity_history, size)
    /\ UNCHANGED <<sm_pc, smoothing_factor, last_position, last_time,
                   current_velocity, sm_now, sm_call, sm_predicted, sm_since>>
    /\ UNCHANGED non_sm

\* reset() that forgets the histories but keeps the last sample
SmResetKeepsLast ==
    /\ sm_pc = "ready"
    /\ sm_ops < MaxCalls
    /\ sm_ops' = sm_ops + 1
    /\ sm_last_op' = "reset"
    /\ sm_since' = 0
    /\ position_history' = <<>>
    /\ velocity_history' = <<>>
    /\ current_velocity' = <<0, 0>>
    /\ UNCHANGED <<sm_pc, window_size, sm_maxlen, smoothing_factor, last_position,
                   last_time, sm_now, sm_call, sm_predicted>>
    /\ UNCHANGED non_sm

\* reset()
SmReset ==
    /\ sm_pc = "ready"
    /\ sm_ops < MaxCalls
    /\ sm_ops' = sm_ops + 1
    /\ sm_last_op' = "reset"
    /\ sm_since' = 0
    /\ position_history' = <<>>
    /\ velocity_history' = <<>>
    /\ last_position' = None
    /\ last_time' = NoTime
    /\ current_velocity' = <<0, 0>>
    /\ UNCHANGED <<sm_pc, window_size, sm_maxlen, smoothing_factor, sm_now,
                   sm_call, sm_predicted>>
    /\ UNCHANGED non_sm

SmNext ==
    \/ \E p \in RawPoints, custom \in CustomFactors, dt \in ClockSteps :
          SmSmooth(p[1], p[2], custom, dt)
    \/ \E t \in TimeAheads : SmPredict(t)
    \/ \E f \in FactorArgs : SmSetSmoothingFactor(f)
    \/ \E size \in WindowSizeArgs : SmSetWindowSize(size)
    \/ SmReset

\* ------------------------------------------------------ TrajectoryGenerator
\* Coordinates are fixed-point integers in units of 1/PathScale pixel; the
\* parameter t, cosines and sines are in units of 1/UnitScale.  A division or
\* a square root rounds down to the grid.
PathScale == 100
UnitScale == 1000
MaxRoot == 2000

PathPoints == {<<0, 0>>, <<3, 7>>, <<8, 0>>}      \* pixels
CurveTypes == {"linear", "bezier", "arc", "other"}

\* math.sqrt
ISqrt(n) == CHOOSE r \in 0..MaxRoot : r * r <= n /\ (r + 1) * (r + 1) > n

\* math.cos(i * pi / n) and math.sin(i * pi / n), times UnitScale
CosTable ==
    << <<1000, -1000>>,
       <<1000, 0, -1000>>,
       <<1000, 500, -500, -1000>>,
       <<1000, 707, 0, -707, -1000>>,
       <<1000, 809, 309, -309, -809, -1000>> >>

SinTable ==
    << <<0, 0>>,
       <<0, 1000, 0>>,
       <<0, 866, 866, 0>>,
       <<0, 707, 1000, 707, 0>>,
       <<0, 588, 951, 951, 588, 0>> >>

\* range(num_points) in place of range(num_points + 1)
PathIndicesShort(n) == 0..(n - 1)

\* for i in range(num_points + 1)
PathIndices(n) == 0..n

\* t = i / num_points
Param(i, n) == (i * UnitScale) \div n

\* _linear_path: start + t * (end - start)
LinearPoint(s, e, i, n) ==
    LET t == Param(i, n)
    IN  << s[1] + ((t * (e[1] - s[1])) \div UnitScale),
           s[2] + ((t * (e[2] - s[2])) \div UnitScale) >>

\* _bezier_path: the control point is the midpoint moved sideways by 0.2 * length
BezierControl(s, e) ==
    LET mid_x == (s[1] + e[1]) \div 2
        mid_y == (s[2] + e[2]) \div 2
        dx == e[1] - s[1]
        dy == e[2] - s[2]
        length == ISqrt(dx * dx + dy * dy)
        offset == (length * 2) \div 10
    IN  IF length > 0
        THEN << mid_x - ((dy * offset) \div length), mid_y + ((dx * offset) \div length) >>
        ELSE << mid_x, mid_y >>

\* (1-t)**2 * start + 2*(1-t)*t * control + t**2 * end
BezierCoord(s, c, e, t) ==
    ((UnitScale - t) * (UnitScale - t) * s + 2 * (UnitScale - t) * t * c + t * t * e)
        \div (UnitScale * UnitScale)

BezierPoint(s, e, i, n) ==
    LET t == Param(i, n)
        control == BezierControl(s, e)
    IN  << BezierCoord(s[1], control[1], e[1], t), BezierCoord(s[2], control[2], e[2], t) >>

\* _arc_path: center + radius * (cos(angle), sin(angle)) with
\* angle = start_angle + t * (end_angle - start_angle).  start_angle is kept
\* as its cosine and sine; start and end lie opposite each other about the
\* center, so end_angle - start_angle is -pi when start_angle > 0 and +pi
\* otherwise, and the angle-sum formulas give cos(angle) and sin(angle).
ArcPoint(s, e, i, n) ==
    LET center_x == (s[1] + e[1]) \div 2
        center_y == (s[2] + e[2]) \div 2
        ex == e[1] - s[1]
        ey == e[2] - s[2]
        radius == ISqrt(ex * ex + ey * ey) \div 2
        vx == s[1] - center_x
        vy == s[2] - center_y
        norm == ISqrt(vx * vx + vy * vy)
        cos0 == IF norm = 0 THEN UnitScale ELSE (vx * UnitScale) \div norm
        sin0 == IF norm = 0 THEN 0 ELSE (vy * UnitScale) \div norm
        sign == IF norm = 0 THEN 0
                ELSE IF vy > 0 \/ (vy = 0 /\ vx < 0) THEN -1 ELSE 1
        cosT == IF sign = 0 THEN UnitScale ELSE CosTable[n][i + 1]
        sinT == sign * SinTable[n][i + 1]
        cosA == (cos0 * cosT - sin0 * sinT) \div UnitScale
        sinA == (sin0 * cosT + cos0 * sinT) \div UnitScale
    IN  << center_x + ((radius * cosA) \div UnitScale),
           center_y + ((radius * sinA) \div UnitScale) >>

PathPoint(curve, s, e, i, n) ==
    CASE curve = "linear" -> LinearPoint(s, e, i, n)
      [] curve = "bezier" -> BezierPoint(s, e, i, n)
      [] curve = "arc" -> ArcPoint(s, e, i, n)

PtInit ==
    /\ pt_start = <<0, 0>>
    /\ pt_end = <<0, 0>>
    /\ curve_type = "none"
    /\ num_points = 0
    /\ path = <<>>

PtIdle ==
    /\ PtInit
    /\ pt_pc = "idle"

PtAbsent ==
    /\ PtInit
    /\ pt_pc = "none"

\* generate_smooth_path(start, end, curve_type, num_points), num_points >= 1:
\* the dispatch on curve_type; any other type returns [start, end]
PtGenerateSmoothPath(s, e, curve, n) ==
    /\ pt_pc = "idle"
    /\ pt_start' = <<s[1] * PathScale, s[2] * PathScale>>
    /\ pt_end' = <<e[1] * PathScale, e[2] * PathScale>>
    /\ curve_type' = curve
    /\ num_points' = n
    /\ IF curve \in {"linear", "bezier", "arc"}
       THEN /\ path' = <<>>
            /\ pt_pc' = "loop"
       ELSE /\ path' = << <<s[1] * PathScale, s[2] * PathScale>>,
                          <<e[1] * PathScale, e[2] * PathScale>> >>
            /\ pt_pc' = "done"
    /\ UNCHANGED non_pt

\* one pass of `for i in range(num_points + 1): ...; path.append((x, y))`,
\* and `return path` once the range is exhausted
PtAppendPoint ==
    /\ pt_pc = "loop"
    /\ IF Len(path) \in PathIndices(num_points)
       THEN /\ path' = Append(path, PathPoint(curve_type, pt_start, pt_end, Len(path), num_points))
            /\ UNCHANGED pt_pc
       ELSE /\ pt_pc' = "done"
            /\ UNCHANGED path
    /\ UNCHANGED <<pt_start, pt_end, curve_type, num_points>>
    /\ UNCHANGED non_pt

PtNext ==
    \/ \E s \in PathPoints, e \in PathPoints, curve \in CurveTypes, n \in 1..MaxPoints :
          PtGenerateSmoothPath(s, e, curve, n)
    \/ PtAppendPoint

\* ----------------------------------------------------- NaturalMouseMovement
\* generate_movement_sequence: times are integers in milliseconds and the
\* variation factor is in tenths.  A waypoint's x and y (the jittered Bezier
\* point) play no part in its delay and timestamp and are left out.
SegmentDistance == 10                 \* segment_distance
MaxBaseDelay == 500                   \* base_delay = min(distance / 1000.0, 0.5)
VariationDen == 10

\* random.uniform(0.8, 1.2), plus random.uniform(0.1, 0.3) on a micro-pause
Variations == {8, 12, 15}
\* milliseconds by which time.time() advances between two waypoints
MsClockSteps == {0, 1}

\* calculate_human_delay(distance) for one draw of the variation
HumanDelay(distance, variation) ==
    (Min(distance, MaxBaseDelay) * variation) \div VariationDen

\* 'timestamp': time.time() + (i * delay), with one delay per waypoint
WaypointTimestamp(now, i, delay) == now + i * delay

MsInit ==
    /\ movement_sequence = <<>>
    /\ ms_now = 0
    /\ ms_start = 0

MsIdle ==
    /\ MsInit
    /\ ms_pc = "idle"

MsAbsent ==
    /\ MsInit
    /\ ms_pc = "none"

\* generate_movement_sequence(start, end): movement_sequence = []
MsGenerateMovementSequence ==
    /\ ms_pc = "idle"
    /\ ms_pc' = "loop"
    /\ movement_sequence' = <<>>
    /\ \E now \in MsClockSteps :
          /\ ms_now' = now
          /\ ms_start' = now
    /\ UNCHANGED non_ms

\* one pass of `for i, (x, y) in enumerate(path)`
MsAppendWaypoint ==
    /\ ms_pc = "loop"
    /\ Len(movement_sequence) < MaxWaypoints
    /\ \E variation \in Variations, dt \in MsClockSteps :
          LET i == Len(movement_sequence)
              delay == HumanDelay(SegmentDistance, variation)
          IN  /\ ms_now' = ms_now + dt
              /\ movement_sequence' =
                    Append(movement_sequence,
                           [delay |-> delay,
                            timestamp |-> WaypointTimestamp(ms_now + dt, i, delay)])
    /\ UNCHANGED <<ms_pc, ms_start>>
    /\ UNCHANGED non_ms

\* return movement_sequence
MsReturn ==
    /\ ms_pc = "loop"
    /\ Len(movement_sequence) = MaxWaypoints
    /\ ms_pc' = "done"
    /\ UNCHANGED <<movement_sequence, ms_now, ms_start>>
    /\ UNCHANGED non_ms

MsNext ==
    \/ MsGenerateMovementSequence
    \/ MsAppendWaypoint
    \/ MsReturn

\* ---------------------------------------------------------- EasingFunctions
\* The argument is t = k / EaseGrid, so that the breakpoints 1/2.75, 2/2.75
\* and 2.5/2.75 of ease_out_bounce are the grid points 8, 16 and 20.  A
\* result is the exact fraction num / den.
EaseGrid == 22
EaseNames == {"ease_in_out_cubic", "ease_out_elastic", "ease_in_out_back",
              "ease_out_bounce"}

Fraction(n, d) == [num |-> n, den |-> d]
NoFraction == Fraction(0, 0)

CubicDen == EaseGrid * EaseGrid * EaseGrid

\* 4 t^3 below one half, else 1 - (-2t + 2)^3 / 2
EaseInOutCubic(k) ==
    IF 2 * k < EaseGrid
    THEN Fraction(4 * k * k * k, CubicDen)
    ELSE Fraction(CubicDen - 4 * (EaseGrid - k) * (EaseGrid - k) * (EaseGrid - k),
                  CubicDen)

\* 1000 * (pow(2, -10 t) * sin((10 t - 0.75) * 2 pi / 3) + 1) at t = k / 22,
\* k = 1..21
ElasticTable ==
    <<577, 1174, 1373, 1223, 990, 873, 898, 981, 1038, 1043, 1016, 991, 984,
      991, 1001, 1006, 1004, 1000, 998, 998, 999>>
ElasticDen == 1000

\* 0 at t == 0, 1 at t == 1, else the damped sine
EaseOutElastic(k) ==
    IF k = 0 THEN Fraction(0, ElasticDen)
    ELSE IF k = EaseGrid THEN Fraction(ElasticDen, ElasticDen)
    ELSE Fraction(ElasticTable[k], ElasticDen)

\* c2 = 1.70158 * 1.525, in thousandths
BackC2 == 2595
BackScale == 1000
BackDen == 2 * 121 * 11 * BackScale

\* pow(2t, 2) * ((c2 + 1) * 2t - c2) / 2 below one half, else
\* (pow(2t - 2, 2) * ((c2 + 1) * (2t - 2) + c2) + 2) / 2
EaseInOutBack(k) ==
    IF 2 * k < EaseGrid
    THEN Fraction(k * k * ((BackC2 + BackScale) * k - 11 * BackC2), BackDen)
    ELSE Fraction((k - EaseGrid) * (k - EaseGrid)
                     * ((BackC2 + BackScale) * (k - EaseGrid) + 11 * BackC2)
                  + BackDen,
                  BackDen)

\* n1 = 7.5625 and d1 = 2.75: at t = k / 22, n1 * (t - s / 22) * t is
\* (k - s) * k / 64
BounceDen == 64

\* n1 * (t - shift) * t + offset: the shifted t times the unshifted t
BounceSegment(k, shift, offset) == Fraction((k - shift) * k + offset, BounceDen)

EaseOutBounce(k) ==
    IF k < 8 THEN Fraction(k * k, BounceDen)
    ELSE IF k < 16 THEN BounceSegment(k, 12, 48)
    ELSE IF k < 20 THEN BounceSegment(k, 18, 60)
    ELSE BounceSegment(k, 21, 63)

Ease(name, k) ==
    CASE name = "ease_in_out_cubic" -> EaseInOutCubic(k)
      [] name = "ease_out_elastic" -> EaseOutElastic(k)
      [] name = "ease_in_out_back" -> EaseInOutBack(k)
      [] name = "ease_out_bounce" -> EaseOutBounce(k)

EaAbsent ==
    /\ ea_pc = "none"
    /\ ea_name = "ease_in_out_cubic"
    /\ ea_t = 0
    /\ ea_result = NoFraction

\* a call about to be made with one of the functions and a t of the grid
EaCalled ==
    /\ ea_pc = "called"
    /\ ea_name \in EaseNames
    /\ ea_t \in 0..EaseGrid
    /\ ea_result = NoFraction

\* the call returns
EaReturn ==
    /\ ea_pc = "called"
    /\ ea_pc' = "returned"
    /\ ea_result' = Ease(ea_name, ea_t)
    /\ UNCHANGED <<ea_name, ea_t>>
    /\ UNCHANGED non_ea

EaNext == EaReturn

\* ------------------------------------------------------------ specification
Init ==
    /\ variant \in {"software", "serial", "native"}
    /\ next_id = 1
    /\ IF variant = "software" THEN SwConstructed ELSE SwAbsent
    /\ IF variant = "serial" THEN HwConstructing ELSE HwAbsent
    /\ IF variant = "native" THEN NvConstructed ELSE NvAbsent
    /\ DtAbsent
    /\ SmAbsent
    /\ PtAbsent
    /\ MsAbsent
    /\ EaAbsent

Next == SwNext \/ HwNext \/ NvNext

\* the three actuator variants, one constructed per behaviour
Spec == Init /\ [][Next]_vars

InitLoop ==
    /\ variant = "none"
    /\ next_id = 1
    /\ SwAbsent
    /\ HwAbsent
    /\ NvAbsent
    /\ DtIdle
    /\ SmAbsent
    /\ PtAbsent
    /\ MsAbsent
    /\ EaAbsent

NextLoop == DtNext

\* the detection loop and the GUI thread that starts and stops it
SpecLoop == InitLoop /\ [][NextLoop]_vars

InitSmooth ==
    /\ variant = "none"
    /\ next_id = 1
    /\ SwAbsent
    /\ HwAbsent
    /\ NvAbsent
    /\ DtAbsent
    /\ SmConstructed
    /\ PtAbsent
    /\ MsAbsent
    /\ EaAbsent

NextSmooth == SmNext

\* one MovementSmoother and the calls made on it
SpecSmooth == InitSmooth /\ [][NextSmooth]_vars

InitPath ==
    /\ variant = "none"
    /\ next_id = 1
    /\ SwAbsent
    /\ HwAbsent
    /\ NvAbsent
    /\ DtAbsent
    /\ SmAbsent
    /\ PtIdle
    /\ MsAbsent
    /\ EaAbsent

NextPath == PtNext

\* one call of TrajectoryGenerator.generate_smooth_path
SpecPath == InitPath /\ [][NextPath]_vars

InitSequence ==
    /\ variant = "none"
    /\ next_id = 1
    /\ SwAbsent
    /\ HwAbsent
    /\ NvAbsent
    /\ DtAbsent
    /\ SmAbsent
    /\ PtAbsent
    /\ MsIdle
    /\ EaAbsent

NextSequence == MsNext

\* one call of NaturalMouseMovement.generate_movement_sequence
SpecSequence == InitSequence /\ [][NextSequence]_vars

InitEase ==
    /\ variant = "none"
    /\ next_id = 1
    /\ SwAbsent
    /\ HwAbsent
    /\ NvAbsent
    /\ DtAbsent
    /\ SmAbsent
    /\ PtAbsent
    /\ MsAbsent
    /\ EaCalled

NextEase == EaNext

\* one call of one of the EasingFunctions
SpecEase == InitEase /\ [][NextEase]_vars

\* ====================================================================
\* Properties
\* ====================================================================
Ids(q) == [i \in 1..Len(q) |-> q[i].id]

Range(s) == { s[i] : i \in 1..Len(s) }

NoDuplicates(s) == \A i, j \in 1..Len(s) : i # j => s[i] # s[j]

PosIn(s, e) == CHOOSE k \in 1..Len(s) : s[k] = e

\* `exe` lists elements of `enq`, in the order in which `enq` lists them
InOrderOf(enq, exe) ==
    /\ \A i \in 1..Len(exe) : exe[i] \in Range(enq)
    /\ \A i, j \in 1..Len(exe) : i < j => PosIn(enq, exe[i]) < PosIn(enq, exe[j])

Abs(n) == IF n < 0 THEN -n ELSE n

IsPrefix(p, s) == Len(p) <= Len(s) /\ SubSeq(s, 1, Len(p)) = p

\* C1: on the software-simulated and on the hardware-serial actuator, the
\* worker begins executing commands in exactly the order in which they were
\* appended to the queue; on the software actuator, whose queue is never
\* cleared, the executed commands are a prefix of the enqueued ones.
C1_FifoOrder ==
    /\ InOrderOf(sw_enqueued_log, sw_executed_log)
    /\ IsPrefix(sw_executed_log, sw_enqueued_log)
    /\ InOrderOf(hw_enqueued_log, hw_executed_log)

\* two commands waited in the queue together and both have been executed
C1_Witness ==
    /\ variant = "software"
    /\ Len(sw_executed_log) = 2
    /\ sw_pc = "loop"
    /\ sw_popped_log = <<1, 2>>

\* every id appended is in exactly one place: handed to the worker, still
\* queued, or removed by disconnect()'s clear
Conserved(enq, popped, queue, cleared) ==
    /\ NoDuplicates(enq)
    /\ Len(enq) = Len(popped) + Len(queue) + Len(cleared)
    /\ Range(enq) = Range(popped) \cup Range(Ids(queue)) \cup Range(cleared)

\* C2: every command accepted into a queue is handed to the dispatch routine
\* exactly once: no id is dispatched twice, what the worker removed from the
\* queue is what it dispatched (plus the one command in flight), and no
\* command leaves the queue in any other way while the worker is running.
C2_ExactlyOnce ==
    /\ NoDuplicates(sw_executed_log)
    /\ sw_popped_log = IF sw_pc = "execute"
                       THEN Append(sw_executed_log, sw_movement.id)
                       ELSE sw_executed_log
    /\ Conserved(sw_enqueued_log, sw_popped_log, movement_queue, <<>>)
    /\ NoDuplicates(hw_executed_log)
    /\ hw_popped_log = IF hw_pc = "send"
                       THEN Append(hw_executed_log, hw_command.id)
                       ELSE hw_executed_log
    /\ Conserved(hw_enqueued_log, hw_popped_log, command_queue, hw_cleared_log)

\* the serial worker has dequeued and written two commands and the queue is empty
C2_Witness ==
    /\ variant = "serial"
    /\ Len(hw_executed_log) = 2
    /\ Len(serial_log) = 2
    /\ command_queue = <<>>
    /\ hw_pc = "loop"

\* C3: the queue lock is never held by the worker while it dispatches a
\* command, so a pending append can proceed during the dispatch.
C3_LockNotHeldDuringDispatch ==
    /\ sw_pc \in {"execute", "smooth"} => sw_queue_lock # "worker"
    /\ hw_pc = "send" => hw_queue_lock # "worker"

\* C4: the sub-movement steps of one command are contiguous and end with the
\* step onto the target before any step of another command happens.
C4_NoInterleaving ==
    /\ \A i \in 1..Len(sw_step_log) :
          /\ (i < Len(sw_step_log) /\ sw_step_log[i + 1].id # sw_step_log[i].id)
                => sw_step_log[i].final
          /\ (sw_step_log[i].final /\ i < Len(sw_step_log))
                => sw_step_log[i + 1].id # sw_step_log[i].id
    /\ \A i, j, k \in 1..Len(sw_step_log) :
          (i < j /\ j < k /\ sw_step_log[i].id = sw_step_log[k].id)
             => sw_step_log[j].id = sw_step_log[i].id
    /\ sw_pc = "smooth" =>
          \A i \in 1..Len(sw_step_log) :
             sw_step_log[i].id # sw_movement.id => sw_step_log[i].id < sw_movement.id

\* two move_to commands with duration > 0 have both been stepped to the end
C4_Witness ==
    /\ Len(sw_step_log) >= 4
    /\ ~sw_step_log[1].final
    /\ sw_step_log[1].id = 1
    /\ ~sw_step_log[Len(sw_step_log) - 1].final
    /\ sw_step_log[Len(sw_step_log)].final
    /\ sw_step_log[Len(sw_step_log)].id = 2

InScreen(x, y, w, h) == 0 <= x /\ x <= w - 1 /\ 0 <= y /\ y <= h - 1

MoveTargetsIn(q, act, w, h) ==
    \A i \in 1..Len(q) : q[i].action = act => InScreen(q[i].x, q[i].y, w, h)

\* C5: every move_to command queued (or dispatched) by any of the three
\* variants carries a target inside the screen bounds.
C5_TargetsClamped ==
    /\ MoveTargetsIn(movement_queue, "move_to", screen_width, screen_height)
    /\ MoveTargetsIn(<<sw_call>>, "move_to", screen_width, screen_height)
    /\ MoveTargetsIn(command_queue, "move_abs", DefaultScreenWidth, DefaultScreenHeight)
    /\ MoveTargetsIn(<<hw_call>>, "move_abs", DefaultScreenWidth, DefaultScreenHeight)
    /\ \A i \in 1..Len(nv_target_log) :
          InScreen(nv_target_log[i].x, nv_target_log[i].y,
                   DefaultScreenWidth, DefaultScreenHeight)

\* C6: a command operation invoked while the serial actuator is disconnected
\* returns at once: nothing is queued or left pending, nothing is written,
\* and the connection state is unchanged.
C6_DisconnectedNoOp ==
    [][(hw_calls' = hw_calls + 1 /\ ~is_connected)
         => /\ hw_call' = NoCmd
            /\ UNCHANGED <<command_queue, hw_enqueued_log, serial_log,
                           is_connected, serial_connection, hw_running, hw_pc>>]_vars

\* operations were invoked on a controller whose connect() had failed
C6_Witness ==
    /\ variant = "serial"
    /\ connect_result = "false"
    /\ ~is_connected
    /\ hw_calls = 2
    /\ hw_enqueued_log = <<>>

InConnect == ctl_pc \in {"c_open", "c_ping", "c_wait", "c_retry"}

\* C7: connect() begins at most max_retries attempts; it returns failure only
\* after max_retries failed attempts, with is_connected false and no worker
\* started; a successful attempt is the last one.
C7_ConnectBounded ==
    /\ attempt_count <= max_retries
    /\ Len(attempt_log) <= attempt_count
    /\ \A i \in 1..Len(attempt_log) :
          attempt_log[i] = "connected" => (i = Len(attempt_log) /\ ~InConnect)
    /\ connect_result = "false" =>
          /\ attempt_count = max_retries
          /\ attempt_log = <<"failed", "failed", "failed">>
          /\ ~is_connected
          /\ ~started_by_connect
          /\ ~InConnect
    /\ connect_result = "true" =>
          /\ attempt_log[Len(attempt_log)] = "connected"
          /\ Len(attempt_log) = attempt_count
          /\ ~InConnect

\* connect() has returned failure after its third failed attempt
C7_Witness ==
    /\ connect_result = "false"
    /\ attempt_count = max_retries
    /\ ctl_pc = "idle"

\* C8: in every attempt whose port opened, the ping line has been written
\* when the wait for the reply begins, and a successful connect has read a
\* line containing pong.
C8_PingBeforeWait ==
    /\ ctl_pc = "c_wait" => (ping_written /\ "ping" \in Range(serial_log))
    /\ connect_result = "true" => pong_read

\* C9: the loop is stopped before start(), and once stop() has been called
\* the running flag is false, whatever the spawned thread has executed so far.
C9_StopLeavesStopped ==
    /\ dt_pc = "unstarted" => ~dt_running
    /\ stop_called => ~dt_running

\* C10: an iteration whose capture() returned none calls neither detector,
\* smoother nor actuator and reports no error; as long as every capture() so
\* far returned none, all those counts are zero and the loop has not ended
\* unless stop() was called.
C10_NoneFrameSkips ==
    /\ dt_pc \in {"detect", "smooth", "move", "emit", "sleep"} => dt_frame = "frame"
    /\ dt_pc = "except" => dt_frame # "none"
    /\ (dt_counts.frame = 0 /\ dt_counts.capture_raise = 0) =>
          /\ dt_counts.detect = 0
          /\ dt_counts.smooth = 0
          /\ dt_counts.move_to = 0
          /\ dt_counts.emit = 0
          /\ dt_counts.error = 0
          /\ dt_pc = "finished" => stop_called

\* capture() has returned none in several consecutive iterations and the
\* loop is about to capture again
C10_Witness ==
    /\ dt_counts.none = MaxIters
    /\ dt_counts.frame = 0
    /\ dt_counts.capture_raise = 0
    /\ dt_frame = "none"
    /\ dt_pc = "capture"
    /\ dt_running

\* the calls an iteration makes for the detection at index k, in program order
CallsFor(detections, k) ==
    << Event("smooth", detections[k].center),
       Event("move_to", detections[k].center),
       Event("emit", detections[k].center) >>

Qualifies(d) == d.confidence >= confidence_threshold

\* C11: the calls of an iteration are smooth, then move_to, then the
\* publication, each at most once and all for the center of the first
\* detection, in detector output order, whose confidence reaches the
\* threshold, whatever the confidences of the detections after it; when no
\* detection qualifies the iteration makes none of these calls.
C11_FirstQualifyingOnly ==
    /\ Len(dt_trace) <= 3
    /\ dt_trace # <<>> =>
          \E k \in 1..Len(dt_detections) :
             /\ Qualifies(dt_detections[k])
             /\ \A j \in 1..(k - 1) : ~Qualifies(dt_detections[j])
             /\ IsPrefix(dt_trace, CallsFor(dt_detections, k))
    /\ (\A k \in 1..Len(dt_detections) : ~Qualifies(dt_detections[k])) => dt_trace = <<>>
    /\ (dt_pc = "sleep" /\ \E k \in 1..Len(dt_detections) : Qualifies(dt_detections[k]))
          => Len(dt_trace) = 3

\* an iteration has smoothed, moved to and published the first of two
\* qualifying detections, the second having the higher confidence
C11_Witness ==
    /\ dt_detections = <<Detection(60, 1), Detection(90, 2)>>
    /\ dt_trace = CallsFor(dt_detections, 1)
    /\ dt_pc = "sleep"

C13_WorkerCatches ==
    /\ \A i \in 1..Len(sw_failed_log) :
          /\ sw_failed_log[i].id \in Range(sw_popped_log)
          /\ sw_failed_log[i].id \in Range(sw_executed_log)
    /\ sw_pc = "dead" => ~sw_running
    /\ sw_queue_lock = "worker" => sw_pc \in {"execute", "smooth", "unlock"}
    /\ hw_queue_lock = "worker" => hw_pc \in {"send", "unlock"}
    /\ \A i \in 1..Len(sw_failed_log) :
          \A j \in 1..Len(sw_executed_log) :
             (sw_executed_log[j] = sw_failed_log[i].id /\ j < Len(sw_executed_log))
                => sw_executed_log[j + 1] = sw_enqueued_log[PosIn(sw_enqueued_log, sw_failed_log[i].id) + 1]

\* the first command raised when only it had been appended; the command
\* appended afterwards was dequeued and executed to its end
C13_Witness ==
    /\ sw_failed_log = <<[id |-> 1, appended |-> 1]>>
    /\ sw_enqueued_log = <<1, 2>>
    /\ sw_executed_log = <<1, 2>>
    /\ sw_pc = "loop"
    /\ sw_running

\* allowance for the rounding of the fixed-point arithmetic: 0.2 pixel
RoundingSlack == PosScale \div 5

\* v lies between a and b, up to the rounding allowance
BetweenCoord(a, v, b) == Min(a, b) - RoundingSlack <= v /\ v <= Max(a, b) + RoundingSlack

SqDist(p, q) == (p[1] - q[1]) * (p[1] - q[1]) + (p[2] - q[2]) * (p[2] - q[2])

\* C14: smooth(x, y) on a smoother that has taken no sample since it was
\* constructed or last reset returns exactly (x, y), whatever was called
\* before the reset; and reset() leaves both histories empty, no last
\* position, no last time and a zero current velocity, as after construction.
C14_FirstCallReturnsRaw ==
    /\ (sm_last_op = "smooth" /\ sm_call.since = 0) => sm_call.result = sm_call.raw
    /\ sm_last_op = "reset" =>
          /\ position_history = <<>>
          /\ velocity_history = <<>>
          /\ last_position = None
          /\ last_time = NoTime
          /\ current_velocity = <<0, 0>>

\* smooth, then reset, then a smooth of another point, the clock having
\* advanced before each smooth
C14_Witness ==
    /\ sm_last_op = "smooth"
    /\ sm_ops = 3
    /\ sm_now = 2
    /\ sm_call.since = 0
    /\ sm_call.raw = <<60 * PosScale, 30 * PosScale>>
    /\ sm_call.result = sm_call.raw
    /\ position_history = <<sm_call.raw>>

\* C15: every value smooth() returns after the first call has each of its
\* coordinates between the previously returned coordinate and the raw one.
C15_OnSegment ==
    (sm_last_op = "smooth" /\ sm_call.prev # None) =>
        /\ BetweenCoord(sm_call.prev[1], sm_call.result[1], sm_call.raw[1])
        /\ BetweenCoord(sm_call.prev[2], sm_call.result[2], sm_call.raw[2])

\* C16: a smooth() call made with factor 1.0 returns its raw input.
C16_FactorOnePassThrough ==
    (sm_last_op = "smooth" /\ sm_call.requested = FactorDen) =>
        /\ Abs(sm_call.result[1] - sm_call.raw[1]) <= RoundingSlack
        /\ Abs(sm_call.result[2] - sm_call.raw[2]) <= RoundingSlack

\* C17: when the raw input of a smooth() call is closer than the jitter
\* threshold to the raw input of the call before it, the returned position is
\* no farther from the previously returned one than 0.2 times the distance
\* from that one to the raw input: 25 d(result, prev)^2 <= d(raw, prev)^2,
\* with the rounding allowance on the right-hand side.
C17_JitterDisplacement ==
    (/\ sm_last_op = "smooth"
     /\ sm_call.prev # None
     /\ sm_call.prev_raw # None
     /\ SqDist(sm_call.raw, sm_call.prev_raw) < jitter_threshold * jitter_threshold) =>
        25 * SqDist(sm_call.result, sm_call.prev)
           <= SqDist(sm_call.raw, sm_call.prev)
              + 10 * RoundingSlack * (Abs(sm_call.raw[1] - sm_call.prev[1])
                                      + Abs(sm_call.raw[2] - sm_call.prev[2]))
              + 25 * RoundingSlack * RoundingSlack

\* tolerance of an end point of a path: 0.02 pixel
PathTolerance == PathScale \div 50

Near(p, q) == Abs(p[1] - q[1]) <= PathTolerance /\ Abs(p[2] - q[2]) <= PathTolerance

C19_MoveToOnlyEnqueues ==
    /\ Range(sw_executed_log) \subseteq Range(sw_popped_log)
    /\ Range(hw_executed_log) \subseteq Range(hw_popped_log)
    /\ nv_pc # "step"
    /\ nv_dispatch_log = <<>>

\* round(num / den), halves to the even neighbour as Python's round
RoundHalfEven(num, den) ==
    LET q == num \div den
        r == num % den
    IN  IF 2 * r < den THEN q
        ELSE IF 2 * r > den THEN q + 1
        ELSE IF q % 2 = 0 THEN q ELSE q + 1

\* max(round(duration * 60), 1)
RoundedStepCount(duration) == Max(RoundHalfEven(duration * StepRate, DurationDen), 1)

StepsOf(log, id) == { i \in 1..Len(log) : log[i].id = id }

\* C20: a move_to with duration > 0 is executed in max(round(duration * 60), 1)
\* increments, each at least as close to the target as the one before, the
\* last one on the clamped target.
C20_SteppedMove ==
    /\ nv_pc = "step" => nv_move.steps = RoundedStepCount(nv_move.duration)
    /\ \A i \in 1..Len(nv_dispatch_log) :
          LET d == nv_dispatch_log[i]
              target == nv_target_log[PosIn([k \in 1..Len(nv_target_log) |-> nv_target_log[k].id], d.id)]
          IN  /\ (i < Len(nv_dispatch_log) /\ nv_dispatch_log[i + 1].id = d.id) =>
                    /\ Abs(target.x - nv_dispatch_log[i + 1].x) <= Abs(target.x - d.x)
                    /\ Abs(target.y - nv_dispatch_log[i + 1].y) <= Abs(target.y - d.y)
              /\ ((i = Len(nv_dispatch_log) \/ nv_dispatch_log[i + 1].id # d.id)
                    /\ ~(nv_pc = "step" /\ nv_move.id = d.id)) =>
                    (d.x = target.x /\ d.y = target.y)
    /\ (/\ sw_pc = "unlock"
        /\ sw_movement.action = "move_to"
        /\ sw_movement.duration > 0
        /\ smooth_movement
        /\ \A i \in 1..Len(sw_failed_log) : sw_failed_log[i].id # sw_movement.id) =>
          /\ Cardinality(StepsOf(sw_step_log, sw_movement.id))
                = RoundedStepCount(sw_movement.duration)
          /\ virtual_x = sw_movement.x
          /\ virtual_y = sw_movement.y

\* the mean of the newest up-to-three velocity samples, times time_ahead,
\* added to the last position
Extrapolated(time_ahead) ==
    LET n == Len(velocity_history)
        recent == SubSeq(velocity_history, Max(1, n - 2), n)
    IN  << last_position[1] + (SumCoord(recent, 1) \div Len(recent)) * time_ahead,
           last_position[2] + (SumCoord(recent, 2) \div Len(recent)) * time_ahead >>

\* C21: predict_position returns None exactly when no smooth() call was made
\* since construction or reset, and otherwise the last position plus the mean
\* of the newest up-to-three velocity samples times time_ahead.
C21_PredictNoneIffNoSmooth ==
    sm_last_op = "predict" =>
        /\ (sm_predicted = None) <=> (sm_since = 0)
        /\ sm_since > 0 =>
              /\ velocity_history # <<>>
              /\ \E t \in TimeAheads : sm_predicted = Extrapolated(t)

\* C22: the loop sleeps between any two consecutive capture() calls: the
\* number of capture() calls made never exceeds the number of sleeps by more
\* than one, whatever the earlier iterations obtained.
C22_SleepBetweenCaptures ==
    dt_counts.capture <= dt_counts.sleep + 1

\* C23: the factor a smooth() call computes with lies in [0, 1], and so does
\* the configured smoothing factor, whether it was set by the constructor or
\* by set_smoothing_factor or is overridden by the custom_factor of the call.
C23_FactorInUnitInterval ==
    /\ 0 <= smoothing_factor /\ smoothing_factor <= FactorDen
    /\ sm_call # NoCall => (0 <= sm_call.factor /\ sm_call.factor <= FactorDen)

\* a smooth() call without custom_factor has computed with the factor that
\* set_smoothing_factor(1.5) left behind
C23_Witness ==
    /\ sm_last_op = "smooth"
    /\ sm_call.prev # None
    /\ sm_call.custom = None
    /\ sm_call.factor = FactorDen
    /\ smoothing_factor = FactorDen

\* C24: window_size is at least 1, both histories have capacity window_size
\* and neither holds more than window_size samples.
C24_WindowCapacity ==
    sm_pc = "ready" =>
        /\ window_size >= 1
        /\ sm_maxlen = window_size
        /\ Len(position_history) <= window_size
        /\ Len(velocity_history) <= window_size

RECURSIVE SumDelays(_, _)
SumDelays(seq, k) == IF k = 0 THEN 0 ELSE seq[k].delay + SumDelays(seq, k - 1)

\* C25: the timestamp of every waypoint is the generation time plus the sum
\* of the delays of the waypoints up to it, and the timestamps are
\* non-decreasing in sequence order.  The generation time may be any reading
\* of the clock during the call, and the sum may or may not include the
\* waypoint's own delay.
C25_CumulativeTimestamps ==
    \A k \in 1..Len(movement_sequence) :
        /\ \E base \in ms_start..ms_now :
              \/ movement_sequence[k].timestamp = base + SumDelays(movement_sequence, k)
              \/ movement_sequence[k].timestamp = base + SumDelays(movement_sequence, k - 1)
        /\ k > 1 => movement_sequence[k - 1].timestamp <= movement_sequence[k].timestamp

\* the standard bounce-out curve at t = k / EaseGrid: n1 * u * u + c with u
\* the shifted t of the segment
StandardBounce(k) ==
    LET Squared(shift, offset) ==
            Fraction((k - shift) * (k - shift) + offset, BounceDen)
    IN  IF k < 8 THEN Squared(0, 0)
        ELSE IF k < 16 THEN Squared(12, 48)
        ELSE IF k < 20 THEN Squared(18, 60)
        ELSE Squared(21, 63)

\* C26: every easing function returns 0 at t = 0 and 1 at t = 1, and
\* ease_out_bounce returns the value of the standard bounce curve at every t.
C26_EasingCurves ==
    ea_pc = "returned" =>
        /\ ea_t = 0 => ea_result.num = 0
        /\ ea_t = EaseGrid => ea_result.num = ea_result.den
        /\ ea_name = "ease_out_bounce" => ea_result = StandardBounce(ea_t)

\* commands appended to the queue after stop() was called
EnqueuedAfterStop ==
    { sw_enqueued_log[k] : k \in (sw_stop_mark.enqueued + 1)..Len(sw_enqueued_log) }

\* C27: once stop() has been called the worker dequeues at most one more
\* command, dequeues none once it has left its loop, and no command appended
\* to the queue after the call is ever executed.
C27_StopEndsExecution ==
    sw_stop_mark.called =>
        /\ Len(sw_popped_log) <= sw_stop_mark.popped + 1
        /\ EnqueuedAfterStop \cap Range(sw_executed_log) = {}

\* C28: the virtual pointer of the software controller is inside the virtual
\* screen in every state: 0 <= virtual_x <= screen_width - 1 and
\* 0 <= virtual_y <= screen_height - 1.
C28_PointerInScreen ==
    variant = "software" => InScreen(virtual_x, virtual_y, screen_width, screen_height)

Disconnected ==
    /\ variant = "serial"
    /\ ctl_pc = "idle"
    /\ ctl_then = "idle"
    /\ ctl_ops > 0
    /\ ~is_connected

\* C30: once disconnect() has returned, and for as long as is_connected stays
\* false, the running flag is false and the command queue is empty.
C30_EmptyAfterDisconnect ==
    Disconnected => (~hw_running /\ command_queue = <<>>)

TypeOK == sw_pc \in {"none", "loop", "lock", "execute", "smooth", "unlock", "dead"}
====
